---- MODULE Spec2Model ----
(***************************************************************************)
(* Model of the parsing pipeline of reading_assistant:                     *)
(*   ParsingWorker.run_job / _ingest_parsed_book   (parsing/worker.py)     *)
(*   InMemoryParsingRepository / SqlAlchemyParsingRepository               *)
(*                                                 (parsing/repository.py) *)
(*   WhooshIndexer.index_book                      (parsing/indexing.py)   *)
(*   cancel_job                                    (api/routes/jobs.py)    *)
(* One action is one repository / engine / indexer call of the code, so    *)
(* that everything another actor can observe between two calls is a state. *)
(* Records carry no created_at / updated_at: they are wall-clock values.   *)
(***************************************************************************)
EXTENDS Integers, Sequences, FiniteSets, TLC

\* ---------------------------------------------------------------- bounds
MaxPages == 3
MaxBatch == 2
BlocksPerPage == 2
MaxRuns == 2
MaxCalls == 2

\* ------------------------------------------------------------- constants
\* Optional[int] None (models.py: total_pages, page_count)
NoneInt == -1
\* Optional[str] None for a source-local id (ParsedBlock.asset_id, parent_id)
NoSrc == 0
\* Optional[str] None for a record id (section_id, block_id, asset_id, parent)
NoId == <<>>
\* Optional[str] None for error_message
NoMsg == "None"

BookId == "bk"
JobIds == {1, 2}
AllWorkers == {1, 2}

JobStates == {"queued", "running", "paused", "completed", "failed"}
TerminalStates == {"completed", "failed"}
JobPhases == {"precheck", "docling_parse", "db_ingestion", "indexing"}
BookStatuses == {"uploaded", "parsing", "paused", "parsed", "failed", "needs_reparse"}

VARIABLES
    doc,                \* the ParsedBook engine.parse returns for the source file
    batch_size,         \* ParsingWorker.batch_size
    file_present,       \* whether the source file can be located
    page_count,         \* what engine.count_pages reports for the source file
    active,             \* the worker executions that exist
    jobs,               \* repo: job id -> ParseJobRecord
    book,               \* repo: the BookRecord of BookId (exists, status, page_count)
    pages,              \* repo: stored PageRecord rows
    sections,           \* repo: stored SectionRecord rows
    blocks,             \* repo: stored BlockRecord rows
    assets,             \* repo: stored AssetRecord rows
    index,              \* search index: the indexed documents
    pc,                 \* worker -> position in run_job
    job_id,             \* worker -> run_job's job_id argument
    resume,             \* worker -> job.current_page as read at worker.py:50
    pos,                \* worker -> position of the page loop in pages_sorted
    batch_pages,        \* worker -> batch_pages
    batch_blocks,       \* worker -> batch_blocks
    batch_assets,       \* worker -> batch_assets
    last_page_ingested, \* worker -> last_page_ingested
    exc,                \* worker -> message of the exception being handled
    result,             \* worker -> how the last run_job ended, and with what
    paused_stop,        \* worker -> the pause poll of this run found PAUSED
    runs,               \* number of run_job calls made so far
    call,               \* the last direct repository call (contract checks)
    sql_jobs,           \* SqlAlchemyParsingRepository: the parse_jobs rows
    sql_blocks,         \* SqlAlchemyParsingRepository: the blocks rows
    library             \* the upload route's repository: book id -> file_md5

vars == <<doc, batch_size, file_present, page_count, active, jobs, book, pages, sections,
          blocks, assets, index, pc, job_id, resume, pos, batch_pages,
          batch_blocks, batch_assets, last_page_ingested, exc, result,
          paused_stop, runs, call, sql_jobs, sql_blocks,
          library>>

repoVars == <<jobs, book, pages, sections, blocks, assets>>
contentVars == <<pages, sections, blocks, assets>>
localVars == <<pc, job_id, resume, pos, batch_pages, batch_blocks,
               batch_assets, last_page_ingested, exc, result, paused_stop>>
configVars == <<doc, batch_size, file_present, page_count, active>>
sqlVars == <<sql_jobs, sql_blocks>>
apiVars == <<library>>

\* ------------------------------------------------- the engine's output
\* ParsedBook of an n-page source (engine.py:109-223): pages keyed 1..n, the
\* blocks in reading order, one picture per page whose block and asset share
\* the item id, two section headers.  The page list is handed over in
\* descending order: the worker does not rely on the engine's order.
ParsedPages(n) ==
    [k \in 1..n |-> [page_number |-> n + 1 - k, width |-> 600 + (n + 1 - k)]]

ParsedBlocks(n) ==
    [r \in 1..(n * BlocksPerPage) |->
        LET k == ((r - 1) \div BlocksPerPage) + 1
            i == ((r - 1) % BlocksPerPage) + 1
        IN  [id |-> k * 10 + i,
             page_number |-> k,
             reading_order |-> r - 1,
             text |-> {0, k * 10 + i},
             section_path |-> IF i = 1 THEN <<99, 1, 2>> ELSE <<>>,
             asset_id |-> IF i = BlocksPerPage THEN k * 10 + i ELSE NoSrc]]

ParsedAssets(n) ==
    [k \in 1..n |-> [id |-> k * 10 + BlocksPerPage, page_number |-> k]]

ParsedSections ==
    << [id |-> 1, parent_id |-> NoSrc, order_index |-> 1],
       [id |-> 2, parent_id |-> 1, order_index |-> 0] >>

ParsedBook(n) ==
    [pages |-> ParsedPages(n), sections |-> ParsedSections,
     blocks |-> ParsedBlocks(n), assets |-> ParsedAssets(n)]

Docs == {ParsedBook(n) : n \in 0..MaxPages}

\* ------------------------------------------------------ pure functions
\* sorted(parsed_book.pages, key=lambda p: p.page_number): stable insertion
RECURSIVE InsertPage(_, _)
InsertPage(p, s) ==
    IF s = <<>> THEN <<p>>
    ELSE IF p.page_number < Head(s).page_number THEN <<p>> \o s
    ELSE <<Head(s)>> \o InsertPage(p, Tail(s))

RECURSIVE pages_sorted(_)
pages_sorted(s) ==
    IF s = <<>> THEN <<>>
    ELSE InsertPage(s[Len(s)], pages_sorted(SubSeq(s, 1, Len(s) - 1)))

RECURSIVE InsertSection(_, _)
InsertSection(x, s) ==
    IF s = <<>> THEN <<x>>
    ELSE IF x.order_index < Head(s).order_index THEN <<x>> \o s
    ELSE <<Head(s)>> \o InsertSection(x, Tail(s))

RECURSIVE sections_sorted(_)
sections_sorted(s) ==
    IF s = <<>> THEN <<>>
    ELSE InsertSection(s[Len(s)], sections_sorted(SubSeq(s, 1, Len(s) - 1)))

\* Derived identifiers: f"{book_id}-p{n}", f"{book_id}-sec-{id}",
\* f"{book_id}-blk-{id}", f"{book_id}-asset-{id}"
PageId(b, n) == <<b, "p", n>>
SectionId(b, sid) == <<b, "sec", sid>>

\* A block id that is generated anew by every run_job instead of derived
BlockIdPerRun(b, bid) == <<b, "blk", bid + 100 * runs>>

BlockId(b, bid) == <<b, "blk", bid>>
AssetId(b, aid) == <<b, "asset", aid>>

MakePageRecord(b, page) ==
    [id |-> PageId(b, page.page_number), book_id |-> b,
     page_number |-> page.page_number, width |-> page.width,
     parse_status |-> "parsed"]

\* _map_sections: the records, in the order given; section_id_map ends up
\* holding every section id of the list, and a parent resolves to the same
\* derived id whether or not it is in the map yet.
map_sections(b, parsed_sections) ==
    [i \in 1..Len(parsed_sections) |->
        LET s == parsed_sections[i]
        IN  [id |-> SectionId(b, s.id), book_id |-> b,
             parent_section_id |->
                 IF s.parent_id # NoSrc THEN SectionId(b, s.parent_id) ELSE NoId,
             order_index |-> s.order_index]]

section_id_map(parsed_sections) ==
    {parsed_sections[i].id : i \in 1..Len(parsed_sections)}

\* A resolution that takes the last entry of section_path that is in the map
RECURSIVE ResolveLastSection(_, _, _)
ResolveLastSection(b, path, known) ==
    IF path = <<>> THEN NoId
    ELSE IF path[Len(path)] \in known THEN SectionId(b, path[Len(path)])
    ELSE ResolveLastSection(b, SubSeq(path, 1, Len(path) - 1), known)

\* _resolve_section: the first entry of section_path that is in the map
RECURSIVE resolve_section(_, _, _)
resolve_section(b, path, known) ==
    IF path = <<>> THEN NoId
    ELSE IF Head(path) \in known THEN SectionId(b, Head(path))
    ELSE resolve_section(b, Tail(path), known)

\* _map_blocks: one BlockRecord per parsed block of the page
map_blocks(b, page_id, blks, known) ==
    [i \in 1..Len(blks) |->
        LET x == blks[i]
        IN  [id |-> BlockId(b, x.id), book_id |-> b, page_id |-> page_id,
             section_id |-> resolve_section(b, x.section_path, known),
             reading_order |-> x.reading_order,
             text |-> x.text,
             asset_id |-> IF x.asset_id # NoSrc THEN AssetId(b, x.asset_id) ELSE NoId]]

\* asset_owner_map.get(asset_id): the last block of the page that refers to it
asset_owner(block_records, aid) ==
    LET refs == {i \in 1..Len(block_records) : block_records[i].asset_id = aid}
    IN  IF refs = {} THEN NoId
        ELSE block_records[CHOOSE i \in refs : \A j \in refs : j <= i].id

\* _map_assets: one AssetRecord per parsed asset of the page
map_assets(b, page_id, assts, block_records) ==
    [i \in 1..Len(assts) |->
        LET a == assts[i]
        IN  [id |-> AssetId(b, a.id), book_id |-> b, page_id |-> page_id,
             block_id |-> asset_owner(block_records, AssetId(b, a.id))]]

OnPage(s, n) == SelectSeq(s, LAMBDA x : x.page_number = n)

\* ------------------------------------------------------------ repository
\* An insert that does not replace the stored row of the same id
UpsertRowInsertOnly(rows, rec) == rows \cup {rec}

\* One upsert: self.pages[page.id] = clone(page) / session.merge(model)
UpsertRow(rows, rec) == {r \in rows : r.id # rec.id} \cup {rec}

\* An upsert that replaces the whole table by the records given
UpsertAllReplacing(rows, recs) == {recs[i] : i \in DOMAIN recs}

RECURSIVE UpsertAll(_, _)
UpsertAll(rows, recs) ==
    IF recs = <<>> THEN rows
    ELSE UpsertAll(UpsertRow(rows, Head(recs)), Tail(recs))

\* A page upsert that writes nothing once the book row is gone
UpsertPagesIfBookStored(rows, recs) ==
    IF book.exists THEN UpsertAll(rows, recs) ELSE rows

upsert_pages(rows, recs) == UpsertAll(rows, recs)

\* A section upsert that stores nothing
UpsertSectionsNothing(rows, recs) == rows

upsert_sections(rows, recs) == UpsertAll(rows, recs)

upsert_blocks(rows, recs) == UpsertAll(rows, recs)
upsert_assets(rows, recs) == UpsertAll(rows, recs)

\* The block records of the parsed document in flight, whatever is stored
ListBlocksInFlight(rows, b) ==
    UNION {LET recs == map_blocks(b, PageId(b, doc.pages[k].page_number),
                                  OnPage(doc.blocks, doc.pages[k].page_number),
                                  section_id_map(doc.sections))
           IN  {recs[i] : i \in DOMAIN recs} : k \in DOMAIN doc.pages}

\* repository.py:252-253
list_blocks_for_book(rows, b) == {r \in rows : r.book_id = b}

NoArg == "unset"

\* An update that tests its arguments for truth instead of "is not None":
\* a current_page or total_pages of 0 is not written
UpdateJobIfTruthy(js, j, state, phase, current_page, total_pages, error_message) ==
    IF j \notin DOMAIN js THEN js
    ELSE [js EXCEPT ![j] =
            [state |-> IF state # NoArg THEN state ELSE @.state,
             phase |-> IF phase # NoArg THEN phase ELSE @.phase,
             current_page |-> IF current_page > 0 THEN current_page ELSE @.current_page,
             total_pages |-> IF total_pages > 0 THEN total_pages ELSE @.total_pages,
             error_message |-> IF error_message # NoMsg THEN error_message ELSE @.error_message]]

\* An update that puts the job back to RUNNING whenever no state is given
UpdateJobResetsState(js, j, state, phase, current_page, total_pages, error_message) ==
    IF j \notin DOMAIN js THEN js
    ELSE [js EXCEPT ![j] =
            [state |-> IF state # NoArg THEN state ELSE "running",
             phase |-> IF phase # NoArg THEN phase ELSE @.phase,
             current_page |-> IF current_page # NoneInt THEN current_page ELSE @.current_page,
             total_pages |-> IF total_pages # NoneInt THEN total_pages ELSE @.total_pages,
             error_message |-> IF error_message # NoMsg THEN error_message ELSE @.error_message]]

\* update_job_state_phase: a field changes only when its argument is not None;
\* an unknown job id changes nothing.
update_job_state_phase(js, j, state, phase, current_page, total_pages, error_message) ==
    IF j \notin DOMAIN js THEN js
    ELSE [js EXCEPT ![j] =
            [state |-> IF state # NoArg THEN state ELSE @.state,
             phase |-> IF phase # NoArg THEN phase ELSE @.phase,
             current_page |-> IF current_page # NoneInt THEN current_page ELSE @.current_page,
             total_pages |-> IF total_pages # NoneInt THEN total_pages ELSE @.total_pages,
             error_message |-> IF error_message # NoMsg THEN error_message ELSE @.error_message]]

\* update_book_status: no book, no change; page_count only when given
update_book_status(bk, status, n) ==
    IF ~bk.exists THEN bk
    ELSE [bk EXCEPT !.status = status,
                    !.page_count = IF n # NoneInt THEN n ELSE @]

\* The index document of one block record (indexing.py:53-59)
IndexDoc(b, r) ==
    [book_id |-> b, block_id |-> r.id, page_id |-> r.page_id,
     reading_order |-> r.reading_order, text |-> r.text]

\* An index_book that adds the documents without deleting the book's old ones
IndexBookNoDelete(ix, b, blks) == ix \cup {IndexDoc(b, r) : r \in blks}

\* WhooshIndexer.index_book: delete the book's documents, add one per block
index_book(ix, b, blks) ==
    {d \in ix : d.book_id # b} \cup {IndexDoc(b, r) : r \in blks}

\* A delete_book that leaves the index as it is
DeleteBookIndexNothing(ix, b) == ix

\* WhooshIndexer.delete_book (indexing.py:62-65)
delete_book_index(ix, b) == {d \in ix : d.book_id # b}

\* WhooshIndexer.search: the stored fields of the documents whose text has
\* the term
search(ix, term) ==
    {[block_id |-> d.block_id, page_id |-> d.page_id,
      reading_order |-> d.reading_order, text |-> d.text] :
        d \in {x \in ix : term \in x.text}}

\* ------------------------------------------------------------------ Init
NewJob ==
    [state |-> "queued", phase |-> "precheck", current_page |-> 0,
     total_pages |-> NoneInt, error_message |-> NoMsg]

NoResult == [kind |-> "none", msg |-> NoMsg]

InitRepo ==
    /\ jobs = [j \in JobIds |-> NewJob]
    /\ book = [exists |-> TRUE, status |-> "uploaded", page_count |-> NoneInt]
    /\ pages = {} /\ sections = {} /\ blocks = {} /\ assets = {}
    /\ index = {}

\* The tables of a freshly created database (repository.py:256-262)
InitSql ==
    /\ sql_jobs = <<>>
    /\ sql_blocks = {}

\* No book has been stored through the upload route
InitApi == library = <<>>

InitLocals ==
    /\ pc = [w \in AllWorkers |-> "idle"]
    /\ job_id = [w \in AllWorkers |-> 1]
    /\ resume = [w \in AllWorkers |-> 0]
    /\ pos = [w \in AllWorkers |-> 1]
    /\ batch_pages = [w \in AllWorkers |-> <<>>]
    /\ batch_blocks = [w \in AllWorkers |-> <<>>]
    /\ batch_assets = [w \in AllWorkers |-> <<>>]
    /\ last_page_ingested = [w \in AllWorkers |-> 0]
    /\ exc = [w \in AllWorkers |-> NoMsg]
    /\ result = [w \in AllWorkers |-> NoResult]
    /\ paused_stop = [w \in AllWorkers |-> FALSE]
    /\ runs = 0
    /\ call = [op |-> "none", arg |-> <<>>, n |-> 0]

Init ==
    /\ doc \in Docs
    /\ batch_size \in 1..MaxBatch
    /\ file_present \in BOOLEAN
    /\ page_count \in {NoneInt, Len(doc.pages)}
    /\ active = {1}
    /\ InitRepo
    /\ InitLocals
    /\ InitSql
    /\ InitApi

\* ---------------------------------------------------------------- run_job
Sorted == pages_sorted(doc.pages)

\* A run_job that does not look the book up before it starts
StartRunJobBookUnchecked(w, j) ==
    /\ w \in active
    /\ pc[w] = "idle"
    /\ runs < MaxRuns
    /\ runs' = runs + 1
    /\ job_id' = [job_id EXCEPT ![w] = j]
    /\ exc' = [exc EXCEPT ![w] = NoMsg]
    /\ paused_stop' = [paused_stop EXCEPT ![w] = FALSE]
    /\ IF j \notin DOMAIN jobs
         THEN /\ result' = [result EXCEPT ![w] = [kind |-> "raised", msg |-> "job not found"]]
              /\ UNCHANGED <<pc, resume>>
       ELSE IF ~file_present
         THEN /\ result' = [result EXCEPT ![w] = [kind |-> "raised", msg |-> "pdf not found"]]
              /\ UNCHANGED <<pc, resume>>
       ELSE /\ result' = [result EXCEPT ![w] = NoResult]
            /\ pc' = [pc EXCEPT ![w] = "set_running"]
            /\ resume' = [resume EXCEPT ![w] = jobs[j].current_page]
    /\ UNCHANGED <<configVars, sqlVars, repoVars, index, pos, batch_pages, batch_blocks,
                   batch_assets, last_page_ingested, call,
                   apiVars>>

\* worker.py:50-57: look the job, the book and the source file up; a failure
\* here is raised before the try block and writes nothing.
StartRunJob(w, j) ==
    /\ w \in active
    /\ pc[w] = "idle"
    /\ runs < MaxRuns
    /\ runs' = runs + 1
    /\ job_id' = [job_id EXCEPT ![w] = j]
    /\ exc' = [exc EXCEPT ![w] = NoMsg]
    /\ paused_stop' = [paused_stop EXCEPT ![w] = FALSE]
    /\ IF j \notin DOMAIN jobs
         THEN /\ result' = [result EXCEPT ![w] = [kind |-> "raised", msg |-> "job not found"]]
              /\ UNCHANGED <<pc, resume>>
       ELSE IF ~book.exists
         THEN /\ result' = [result EXCEPT ![w] = [kind |-> "raised", msg |-> "book not found"]]
              /\ UNCHANGED <<pc, resume>>
       ELSE IF ~file_present
         THEN /\ result' = [result EXCEPT ![w] = [kind |-> "raised", msg |-> "pdf not found"]]
              /\ UNCHANGED <<pc, resume>>
       ELSE /\ result' = [result EXCEPT ![w] = NoResult]
            /\ pc' = [pc EXCEPT ![w] = "set_running"]
            /\ resume' = [resume EXCEPT ![w] = jobs[j].current_page]
    /\ UNCHANGED <<configVars, sqlVars, repoVars, index, pos, batch_pages, batch_blocks,
                   batch_assets, last_page_ingested, call,
                   apiVars>>

\* worker.py:59
SetRunning(w) ==
    /\ pc[w] = "set_running"
    /\ jobs' = update_job_state_phase(jobs, job_id[w], "running", "precheck",
                                      NoneInt, NoneInt, NoMsg)
    /\ pc' = [pc EXCEPT ![w] = "book_parsing"]
    /\ UNCHANGED <<configVars, sqlVars, book, contentVars, index, job_id, resume, pos,
                   batch_pages, batch_blocks, batch_assets, last_page_ingested,
                   exc, result, paused_stop, runs, call,
                   apiVars>>

\* worker.py:60
BookParsing(w) ==
    /\ pc[w] = "book_parsing"
    /\ book' = update_book_status(book, "parsing", NoneInt)
    /\ pc' = [pc EXCEPT ![w] = "precheck"]
    /\ UNCHANGED <<configVars, sqlVars, jobs, contentVars, index, job_id, resume, pos,
                   batch_pages, batch_blocks, batch_assets, last_page_ingested,
                   exc, result, paused_stop, runs, call,
                   apiVars>>

\* worker.py:62-63: count_pages gives the page count or None
Precheck(w) ==
    /\ pc[w] = "precheck"
    /\ book' = update_book_status(book, "parsing", page_count)
    /\ pc' = [pc EXCEPT ![w] = "total_pages"]
    /\ UNCHANGED <<configVars, sqlVars, jobs, contentVars, index, job_id, resume, pos,
                   batch_pages, batch_blocks, batch_assets, last_page_ingested,
                   exc, result, paused_stop, runs, call,
                   apiVars>>

\* worker.py:64
SetTotalPages(w) ==
    /\ pc[w] = "total_pages"
    /\ jobs' = update_job_state_phase(jobs, job_id[w], NoArg, NoArg, NoneInt,
                                      page_count, NoMsg)
    /\ pc' = [pc EXCEPT ![w] = "phase_parse"]
    /\ UNCHANGED <<configVars, sqlVars, book, contentVars, index, job_id, resume, pos,
                   batch_pages, batch_blocks, batch_assets, last_page_ingested,
                   exc, result, paused_stop, runs, call,
                   apiVars>>

\* worker.py:66
PhaseParse(w) ==
    /\ pc[w] = "phase_parse"
    /\ jobs' = update_job_state_phase(jobs, job_id[w], NoArg, "docling_parse",
                                      NoneInt, NoneInt, NoMsg)
    /\ pc' = [pc EXCEPT ![w] = "parse"]
    /\ UNCHANGED <<configVars, sqlVars, book, contentVars, index, job_id, resume, pos,
                   batch_pages, batch_blocks, batch_assets, last_page_ingested,
                   exc, result, paused_stop, runs, call,
                   apiVars>>

\* worker.py:67: engine.parse returns the ParsedBook
Parse(w) ==
    /\ pc[w] = "parse"
    /\ pc' = [pc EXCEPT ![w] = "phase_ingest"]
    /\ UNCHANGED <<configVars, sqlVars, repoVars, index, job_id, resume, pos,
                   batch_pages, batch_blocks, batch_assets, last_page_ingested,
                   exc, result, paused_stop, runs, call,
                   apiVars>>

\* worker.py:67 / engine.py:80-85: engine.parse raises
ParseErrors == {"parsing failed", "engine crashed"}

ParseRaises(w) ==
    /\ pc[w] = "parse"
    /\ \E m \in ParseErrors : exc' = [exc EXCEPT ![w] = m]
    /\ pc' = [pc EXCEPT ![w] = "fail_job"]
    /\ UNCHANGED <<configVars, sqlVars, repoVars, index, job_id, resume, pos,
                   batch_pages, batch_blocks, batch_assets, last_page_ingested,
                   result, paused_stop, runs, call,
                   apiVars>>

\* A run_job that starts the ingestion without writing the DB_INGESTION phase
PhaseIngestSkipped(w) ==
    /\ pc[w] = "phase_ingest"
    /\ pc' = [pc EXCEPT ![w] = "upsert_sections"]
    /\ UNCHANGED <<configVars, sqlVars, repoVars, index, job_id, resume, pos,
                   batch_pages, batch_blocks, batch_assets, last_page_ingested,
                   exc, result, paused_stop, runs, call,
                   apiVars>>

\* worker.py:72
PhaseIngest(w) ==
    /\ pc[w] = "phase_ingest"
    /\ jobs' = update_job_state_phase(jobs, job_id[w], NoArg, "db_ingestion",
                                      NoneInt, NoneInt, NoMsg)
    /\ pc' = [pc EXCEPT ![w] = "upsert_sections"]
    /\ UNCHANGED <<configVars, sqlVars, book, contentVars, index, job_id, resume, pos,
                   batch_pages, batch_blocks, batch_assets, last_page_ingested,
                   exc, result, paused_stop, runs, call,
                   apiVars>>

\* ------------------------------------------------- _ingest_parsed_book
\* worker.py:109-122: sort, upsert the sections once, start with empty batches
UpsertSections(w) ==
    /\ pc[w] = "upsert_sections"
    /\ LET section_records == map_sections(BookId, sections_sorted(doc.sections))
       IN  sections' = IF section_records # <<>>
                         THEN upsert_sections(sections, section_records)
                         ELSE sections
    /\ batch_pages' = [batch_pages EXCEPT ![w] = <<>>]
    /\ batch_blocks' = [batch_blocks EXCEPT ![w] = <<>>]
    /\ batch_assets' = [batch_assets EXCEPT ![w] = <<>>]
    /\ last_page_ingested' = [last_page_ingested EXCEPT ![w] = resume[w]]
    /\ pos' = [pos EXCEPT ![w] = 1]
    /\ pc' = [pc EXCEPT ![w] = "loop"]
    /\ UNCHANGED <<configVars, sqlVars, jobs, book, pages, blocks, assets, index, job_id,
                   resume, exc, result, paused_stop, runs, call,
                   apiVars>>

\* A resume test that is off by one: it also skips the page after the checkpoint
SkipPageOffByOne(page_number, resume_from_page) == page_number <= resume_from_page + 1

\* A resume test that takes the checkpointed page itself again
SkipPageBelowCheckpoint(page_number, resume_from_page) == page_number < resume_from_page

\* worker.py:125-126: pages up to the checkpoint are skipped
SkipPage(page_number, resume_from_page) == page_number <= resume_from_page

\* A batch test that flushes one page late
AfterAppendLate(len, size) == IF len > size THEN "flush_pages" ELSE "loop"

\* A batch test that polls for a pause before the batch is written
AfterAppendPollFirst(len, size) == IF len >= size THEN "flush_poll" ELSE "loop"

\* A flush that starts with the block write and leaves the page write out
AfterAppendSkipPages(len, size) == IF len >= size THEN "flush_blocks" ELSE "loop"

\* worker.py:155: commit the batch when it reaches batch_size
AfterAppend(len, size) == IF len >= size THEN "flush_pages" ELSE "loop"

\* worker.py:124-155: one iteration of the page loop up to the batch test
IngestPage(w) ==
    /\ pc[w] = "loop"
    /\ pos[w] <= Len(Sorted)
    /\ LET page == Sorted[pos[w]]
           page_id == PageId(BookId, page.page_number)
           block_records == map_blocks(BookId, page_id,
                                       OnPage(doc.blocks, page.page_number),
                                       section_id_map(doc.sections))
           asset_records == map_assets(BookId, page_id,
                                       OnPage(doc.assets, page.page_number),
                                       block_records)
           next == AfterAppend(Len(batch_pages[w]) + 1, batch_size)
       IN  IF SkipPage(page.page_number, resume[w])
             THEN /\ pos' = [pos EXCEPT ![w] = @ + 1]
                  /\ UNCHANGED <<pc, batch_pages, batch_blocks, batch_assets>>
             ELSE /\ batch_pages' = [batch_pages EXCEPT ![w] =
                                        Append(@, MakePageRecord(BookId, page))]
                  /\ batch_blocks' = [batch_blocks EXCEPT ![w] = @ \o block_records]
                  /\ batch_assets' = [batch_assets EXCEPT ![w] = @ \o asset_records]
                  /\ pc' = [pc EXCEPT ![w] = next]
                  /\ pos' = [pos EXCEPT ![w] = IF next = "loop" THEN @ + 1 ELSE @]
    /\ UNCHANGED <<configVars, sqlVars, repoVars, index, job_id, resume,
                   last_page_ingested, exc, result, paused_stop, runs, call,
                   apiVars>>

\* A final flush that runs even when no page is left in the batch
LoopEndAlwaysFlush(w) ==
    /\ pc[w] = "loop"
    /\ pos[w] > Len(Sorted)
    /\ pc' = [pc EXCEPT ![w] = "final_pages"]
    /\ UNCHANGED <<configVars, sqlVars, repoVars, index, job_id, resume, pos,
                   batch_pages, batch_blocks, batch_assets, last_page_ingested,
                   exc, result, paused_stop, runs, call,
                   apiVars>>

\* worker.py:165-166: the loop is over; flush what is left, or return
LoopEnd(w) ==
    /\ pc[w] = "loop"
    /\ pos[w] > Len(Sorted)
    /\ pc' = [pc EXCEPT ![w] = IF batch_pages[w] # <<>> THEN "final_pages"
                                                        ELSE "phase_indexing"]
    /\ UNCHANGED <<configVars, sqlVars, repoVars, index, job_id, resume, pos,
                   batch_pages, batch_blocks, batch_assets, last_page_ingested,
                   exc, result, paused_stop, runs, call,
                   apiVars>>

\* A flush that moves the checkpoint right after the page write
FlushNextCheckpointEarly(p) ==
    CASE p = "flush_pages" -> "flush_checkpoint"
      [] p = "flush_blocks" -> "flush_assets"
      [] p = "flush_assets" -> "flush_checkpoint"
      [] p = "final_pages" -> "final_checkpoint"
      [] p = "final_blocks" -> "final_assets"
      [] p = "final_assets" -> "final_checkpoint"

\* worker.py:156-160, 167-171: pages, then blocks, then assets, then checkpoint
FlushNext(p) ==
    CASE p = "flush_pages" -> "flush_blocks"
      [] p = "flush_blocks" -> "flush_assets"
      [] p = "flush_assets" -> "flush_checkpoint"
      [] p = "final_pages" -> "final_blocks"
      [] p = "final_blocks" -> "final_assets"
      [] p = "final_assets" -> "final_checkpoint"

\* worker.py:156, 167
FlushPages(w) ==
    /\ pc[w] \in {"flush_pages", "final_pages"}
    /\ pages' = upsert_pages(pages, batch_pages[w])
    /\ pc' = [pc EXCEPT ![w] = FlushNext(@)]
    /\ UNCHANGED <<configVars, sqlVars, jobs, book, sections, blocks, assets, index,
                   job_id, resume, pos, batch_pages, batch_blocks, batch_assets,
                   last_page_ingested, exc, result, paused_stop, runs, call,
                   apiVars>>

\* worker.py:157, 168
FlushBlocks(w) ==
    /\ pc[w] \in {"flush_blocks", "final_blocks"}
    /\ blocks' = upsert_blocks(blocks, batch_blocks[w])
    /\ pc' = [pc EXCEPT ![w] = FlushNext(@)]
    /\ UNCHANGED <<configVars, sqlVars, jobs, book, pages, sections, assets, index,
                   job_id, resume, pos, batch_pages, batch_blocks, batch_assets,
                   last_page_ingested, exc, result, paused_stop, runs, call,
                   apiVars>>

\* worker.py:158, 169
FlushAssets(w) ==
    /\ pc[w] \in {"flush_assets", "final_assets"}
    /\ assets' = upsert_assets(assets, batch_assets[w])
    /\ pc' = [pc EXCEPT ![w] = FlushNext(@)]
    /\ UNCHANGED <<configVars, sqlVars, jobs, book, pages, sections, blocks, index,
                   job_id, resume, pos, batch_pages, batch_blocks, batch_assets,
                   last_page_ingested, exc, result, paused_stop, runs, call,
                   apiVars>>

\* A checkpoint that names the first page of the flushed batch
CheckpointValueFirst(final, page, batch) == batch[1].page_number

\* worker.py:159, 170: the page number the checkpoint is set to
CheckpointValue(final, page, batch) ==
    IF final THEN batch[Len(batch)].page_number ELSE page.page_number

\* worker.py:159-161, 170-171
UpdateCheckpoint(w) ==
    /\ pc[w] \in {"flush_checkpoint", "final_checkpoint"}
    /\ LET last == CheckpointValue(pc[w] = "final_checkpoint",
                                   Sorted[IF pos[w] <= Len(Sorted) THEN pos[w] ELSE Len(Sorted)],
                                   batch_pages[w])
       IN  /\ last_page_ingested' = [last_page_ingested EXCEPT ![w] = last]
           /\ jobs' = update_job_state_phase(jobs, job_id[w], NoArg, NoArg, last,
                                             NoneInt, NoMsg)
    /\ IF pc[w] = "flush_checkpoint"
         THEN /\ batch_pages' = [batch_pages EXCEPT ![w] = <<>>]
              /\ batch_blocks' = [batch_blocks EXCEPT ![w] = <<>>]
              /\ batch_assets' = [batch_assets EXCEPT ![w] = <<>>]
              /\ pc' = [pc EXCEPT ![w] = "flush_poll"]
         ELSE /\ UNCHANGED <<batch_pages, batch_blocks, batch_assets>>
              /\ pc' = [pc EXCEPT ![w] = "final_poll"]
    /\ UNCHANGED <<configVars, sqlVars, book, contentVars, index, job_id, resume, pos,
                   exc, result, paused_stop, runs, call,
                   apiVars>>

\* worker.py:175-177
should_pause(js, j) == j \in DOMAIN js /\ js[j].state = "paused"

\* A poll whose result is ignored: the loop goes on
AfterPausePollIgnored(paused) == "loop"

\* worker.py:162-163: return from the ingestion when paused, else go on
AfterPausePoll(paused) == IF paused THEN "phase_indexing" ELSE "loop"

\* worker.py:162-163, 172-173
PollPause(w) ==
    /\ pc[w] \in {"flush_poll", "final_poll"}
    /\ LET paused == should_pause(jobs, job_id[w])
           next == IF pc[w] = "final_poll" THEN "phase_indexing"
                                           ELSE AfterPausePoll(paused)
       IN  /\ paused_stop' = [paused_stop EXCEPT ![w] = paused]
           /\ pc' = [pc EXCEPT ![w] = next]
           /\ pos' = [pos EXCEPT ![w] = IF next = "loop" THEN @ + 1 ELSE @]
    /\ UNCHANGED <<configVars, sqlVars, repoVars, index, job_id, resume, batch_pages,
                   batch_blocks, batch_assets, last_page_ingested, exc, result,
                   runs, call,
                   apiVars>>

\* ------------------------------------------------ run_job, after ingestion
\* worker.py:75
PhaseIndexing(w) ==
    /\ pc[w] = "phase_indexing"
    /\ jobs' = update_job_state_phase(jobs, job_id[w], NoArg, "indexing",
                                      NoneInt, NoneInt, NoMsg)
    /\ pc' = [pc EXCEPT ![w] = "index"]
    /\ UNCHANGED <<configVars, sqlVars, book, contentVars, index, job_id, resume, pos,
                   batch_pages, batch_blocks, batch_assets, last_page_ingested,
                   exc, result, paused_stop, runs, call,
                   apiVars>>

\* worker.py:76-77
IndexBook(w) ==
    /\ pc[w] = "index"
    /\ index' = index_book(index, BookId, list_blocks_for_book(blocks, BookId))
    /\ pc' = [pc EXCEPT ![w] = "complete_job"]
    /\ UNCHANGED <<configVars, sqlVars, repoVars, job_id, resume, pos, batch_pages,
                   batch_blocks, batch_assets, last_page_ingested, exc, result,
                   paused_stop, runs, call,
                   apiVars>>

\* worker.py:79
CompleteJob(w) ==
    /\ pc[w] = "complete_job"
    /\ jobs' = update_job_state_phase(jobs, job_id[w], "completed", NoArg,
                                      NoneInt, NoneInt, NoMsg)
    /\ pc' = [pc EXCEPT ![w] = "complete_book"]
    /\ UNCHANGED <<configVars, sqlVars, book, contentVars, index, job_id, resume, pos,
                   batch_pages, batch_blocks, batch_assets, last_page_ingested,
                   exc, result, paused_stop, runs, call,
                   apiVars>>

\* worker.py:80, and the normal return
CompleteBook(w) ==
    /\ pc[w] = "complete_book"
    /\ book' = update_book_status(book, "parsed", NoneInt)
    /\ pc' = [pc EXCEPT ![w] = "idle"]
    /\ result' = [result EXCEPT ![w] = [kind |-> "returned", msg |-> NoMsg]]
    /\ UNCHANGED <<configVars, sqlVars, jobs, contentVars, index, job_id, resume, pos,
                   batch_pages, batch_blocks, batch_assets, last_page_ingested,
                   exc, paused_stop, runs, call,
                   apiVars>>

\* A call of the try block (page count and book update of the precheck, a
\* repository write of the ingestion, the indexing) raises; it has no effect
WritePcs == {"precheck", "flush_pages", "flush_blocks", "flush_assets",
             "final_pages", "final_blocks", "final_assets", "index"}

\* An error that leaves run_job without passing through the except handler
WriteRaisesUnhandled(w) ==
    /\ pc[w] \in WritePcs
    /\ exc' = [exc EXCEPT ![w] = "write failed"]
    /\ pc' = [pc EXCEPT ![w] = "idle"]
    /\ result' = [result EXCEPT ![w] = [kind |-> "raised", msg |-> "write failed"]]
    /\ UNCHANGED <<configVars, sqlVars, repoVars, index, job_id, resume, pos,
                   batch_pages, batch_blocks, batch_assets, last_page_ingested,
                   paused_stop, runs, call,
                   apiVars>>

WriteRaises(w) ==
    /\ pc[w] \in WritePcs
    /\ exc' = [exc EXCEPT ![w] = "write failed"]
    /\ pc' = [pc EXCEPT ![w] = "fail_job"]
    /\ UNCHANGED <<configVars, sqlVars, repoVars, index, job_id, resume, pos,
                   batch_pages, batch_blocks, batch_assets, last_page_ingested,
                   result, paused_stop, runs, call,
                   apiVars>>

\* A handler that records a fixed text instead of the exception's message
FailureMessageGeneric(m) == "job failed"

\* A handler that records the failure without a message
FailureMessageNone(m) == NoMsg

\* worker.py:82: str(exc) is the message the job records
FailureMessage(m) == m

\* A handler that starts the pipeline again instead of recording the failure
FailJobRetries(w) ==
    /\ pc[w] = "fail_job"
    /\ pc' = [pc EXCEPT ![w] = "set_running"]
    /\ UNCHANGED <<configVars, sqlVars, repoVars, index, job_id, resume, pos,
                   batch_pages, batch_blocks, batch_assets, last_page_ingested,
                   exc, result, paused_stop, runs, call, apiVars>>

FailJob(w) ==
    /\ pc[w] = "fail_job"
    /\ jobs' = update_job_state_phase(jobs, job_id[w], "failed", NoArg,
                                      NoneInt, NoneInt, FailureMessage(exc[w]))
    /\ pc' = [pc EXCEPT ![w] = "fail_book"]
    /\ UNCHANGED <<configVars, sqlVars, book, contentVars, index, job_id, resume, pos,
                   batch_pages, batch_blocks, batch_assets, last_page_ingested,
                   exc, result, paused_stop, runs, call,
                   apiVars>>

\* worker.py:84: raise
Reraised(m) == [kind |-> "raised", msg |-> m]

\* worker.py:83-84
FailBook(w) ==
    /\ pc[w] = "fail_book"
    /\ book' = update_book_status(book, "failed", NoneInt)
    /\ pc' = [pc EXCEPT ![w] = "idle"]
    /\ result' = [result EXCEPT ![w] = Reraised(exc[w])]
    /\ UNCHANGED <<configVars, sqlVars, jobs, contentVars, index, job_id, resume, pos,
                   batch_pages, batch_blocks, batch_assets, last_page_ingested,
                   exc, paused_stop, runs, call,
                   apiVars>>

\* ------------------------------------------------------- external actors
\* The pause request of an actor outside the pipeline: RUNNING -> PAUSED
RequestPause(j) ==
    /\ j \in DOMAIN jobs
    /\ jobs[j].state = "running"
    /\ jobs' = update_job_state_phase(jobs, j, "paused", NoArg, NoneInt,
                                      NoneInt, NoMsg)
    /\ UNCHANGED <<configVars, sqlVars, book, contentVars, index, localVars, runs, call,
                   apiVars>>

\* ------------------------------------------------------------------ Next
Next ==
    \/ \E w \in AllWorkers, j \in JobIds : StartRunJob(w, j)
    \/ \E w \in AllWorkers : SetRunning(w)
    \/ \E w \in AllWorkers : BookParsing(w)
    \/ \E w \in AllWorkers : Precheck(w)
    \/ \E w \in AllWorkers : SetTotalPages(w)
    \/ \E w \in AllWorkers : PhaseParse(w)
    \/ \E w \in AllWorkers : Parse(w)
    \/ \E w \in AllWorkers : ParseRaises(w)
    \/ \E w \in AllWorkers : PhaseIngest(w)
    \/ \E w \in AllWorkers : UpsertSections(w)
    \/ \E w \in AllWorkers : IngestPage(w)
    \/ \E w \in AllWorkers : LoopEnd(w)
    \/ \E w \in AllWorkers : FlushPages(w)
    \/ \E w \in AllWorkers : FlushBlocks(w)
    \/ \E w \in AllWorkers : FlushAssets(w)
    \/ \E w \in AllWorkers : UpdateCheckpoint(w)
    \/ \E w \in AllWorkers : PollPause(w)
    \/ \E w \in AllWorkers : PhaseIndexing(w)
    \/ \E w \in AllWorkers : IndexBook(w)
    \/ \E w \in AllWorkers : CompleteJob(w)
    \/ \E w \in AllWorkers : CompleteBook(w)
    \/ \E w \in AllWorkers : WriteRaises(w)
    \/ \E w \in AllWorkers : FailJob(w)
    \/ \E w \in AllWorkers : FailBook(w)
    \/ \E j \in JobIds : RequestPause(j)

Spec == Init /\ [][Next]_vars

\* ------------------------------------------------------------ cancel_job
\* jobs.py:43-45: storage.delete_book, indexer.delete_book, repo.delete_book
\* purge the book: its row, its content rows and its index documents
NoBook == [exists |-> FALSE, status |-> "absent", page_count |-> NoneInt]
delete_book_rows(rows, b) == {r \in rows : r.book_id # b}

\* jobs.py:30-46
CancelJob(j) ==
    /\ j \in DOMAIN jobs
    /\ book.exists
    /\ jobs' = update_job_state_phase(jobs, j, "failed", NoArg, NoneInt,
                                      NoneInt, "Cancelled by user")
    /\ book' = NoBook
    /\ pages' = delete_book_rows(pages, BookId)
    /\ sections' = delete_book_rows(sections, BookId)
    /\ blocks' = delete_book_rows(blocks, BookId)
    /\ assets' = delete_book_rows(assets, BookId)
    /\ index' = delete_book_index(index, BookId)
    /\ UNCHANGED <<configVars, sqlVars, localVars, runs, call,
                   apiVars>>

NextCancel ==
    \/ Next
    \/ \E j \in JobIds : CancelJob(j)

SpecCancel == Init /\ [][NextCancel]_vars

\* ================================================================ claims
JobOf(w) == jobs[job_id[w]]
Exited(w) == pc[w] = "idle" /\ result[w].kind # "none"

\* C1: when run_job exits after engine.parse raised, the job is FAILED with
\* the exception's message, the book is FAILED, and the caller gets the same
\* exception.
C1_ParseFailureMarksJobAndBook ==
    \A w \in active :
        (Exited(w) /\ exc[w] \in ParseErrors) =>
            /\ JobOf(w).state = "failed"
            /\ JobOf(w).error_message = exc[w]
            /\ book.status = "failed"
            /\ result[w] = [kind |-> "raised", msg |-> exc[w]]

C1_Witness ==
    \E w \in active :
        /\ Exited(w) /\ exc[w] = "engine crashed"
        /\ JobOf(w).state = "failed" /\ JobOf(w).phase = "docling_parse"

\* C2: if the pause poll after a batch flush finds the job PAUSED, run_job
\* runs no INDEXING, does not complete the job or the book, and the job is
\* still PAUSED when run_job returns.
C2_PauseStopsRunJob ==
    \A w \in active :
        paused_stop[w] =>
            /\ pc[w] \notin {"index", "complete_job", "complete_book"}
            /\ Exited(w) => (JobOf(w).state = "paused" /\ book.status # "parsed")

\* C3: once the pause poll after a flush found the job PAUSED, no page, block
\* or asset row is written any more and the checkpoint stays at the last page
\* of the batch that was flushed.
C3_NoWriteAfterPauseStop ==
    [][\A w \in AllWorkers :
          (paused_stop[w] /\ paused_stop'[w]) =>
              /\ pages' = pages /\ blocks' = blocks /\ assets' = assets
              /\ JobOf(w).current_page = last_page_ingested[w]
              /\ jobs'[job_id[w]].current_page = last_page_ingested[w]
              /\ \E r \in pages : r.page_number = last_page_ingested[w]]_vars

C3_Witness ==
    \E w \in active :
        /\ paused_stop[w] /\ Exited(w)
        /\ pos[w] < Len(Sorted)
        /\ JobOf(w).current_page = Sorted[pos[w]].page_number

\* C4: a job in state COMPLETED or FAILED never changes state again.
C4_TerminalIsFinal ==
    [][\A j \in JobIds :
          jobs[j].state \in TerminalStates => jobs'[j].state = jobs[j].state]_vars

\* The records of one parsed page, and of the whole document
Range(f) == {f[i] : i \in DOMAIN f}
PageBlockRecords(n) ==
    map_blocks(BookId, PageId(BookId, n), OnPage(doc.blocks, n),
               section_id_map(doc.sections))
PageAssetRecords(n) ==
    map_assets(BookId, PageId(BookId, n), OnPage(doc.assets, n),
               PageBlockRecords(n))
PageNumbers == {doc.pages[i].page_number : i \in DOMAIN doc.pages}
AllPageRecords == {MakePageRecord(BookId, doc.pages[i]) : i \in DOMAIN doc.pages}
AllSectionRecords == Range(map_sections(BookId, doc.sections))
AllBlockRecords == UNION {Range(PageBlockRecords(n)) : n \in PageNumbers}
AllAssetRecords == UNION {Range(PageAssetRecords(n)) : n \in PageNumbers}

FullyStored ==
    /\ pages = AllPageRecords
    /\ sections = AllSectionRecords
    /\ blocks = AllBlockRecords
    /\ assets = AllAssetRecords

\* The page loop of this run_job went through every parsed page
LoopFinished(w) == pos[w] > Len(Sorted)

\* C5: an ingestion from checkpoint 0 that stopped after a batch flush and was
\* run again from the checkpoint that flush left ends with the same page,
\* section, block and asset records as one uninterrupted run from checkpoint 0:
\* both end with exactly the records of the whole parsed document.
C5_ResumedRunEqualsSingleRun ==
    \A w \in active :
        (Exited(w) /\ result[w].kind = "returned" /\ LoopFinished(w)) =>
            FullyStored

\* the second run resumed in the middle of the document and finished it
C5_Witness ==
    \E w \in active :
        /\ Exited(w) /\ result[w].kind = "returned" /\ LoopFinished(w)
        /\ runs = 2 /\ job_id[w] = 1
        /\ resume[w] > 0 /\ resume[w] < Len(doc.pages)
        /\ Len(doc.pages) = 3

\* Some job's ingestion has gone through the whole (non-empty) document
WholeDocumentIngested ==
    /\ Len(doc.pages) > 0
    /\ \E j \in JobIds : jobs[j].current_page = Len(doc.pages)

\* C6: a second ingestion of the same parsed output from checkpoint 0 derives
\* the same record ids and overwrites: once one ingestion has gone through the
\* whole document, every later step leaves the stored pages, sections, blocks
\* and assets the same set, with one row per parsed page, section, block and
\* asset.
C6_ReingestionOverwrites ==
    [][WholeDocumentIngested =>
          /\ pages' = pages /\ Cardinality(pages') = Len(doc.pages)
          /\ sections' = sections /\ Cardinality(sections') = Len(doc.sections)
          /\ blocks' = blocks /\ Cardinality(blocks') = Len(doc.blocks)
          /\ assets' = assets /\ Cardinality(assets') = Len(doc.assets)]_vars

\* job 2 ingested the whole document again from checkpoint 0 after job 1
C6_Witness ==
    \E w \in active :
        /\ Exited(w) /\ result[w].kind = "returned" /\ LoopFinished(w)
        /\ job_id[w] = 2 /\ resume[w] = 0
        /\ jobs[1].state = "completed" /\ jobs[1].current_page = Len(doc.pages)
        /\ jobs[2].current_page = Len(doc.pages)
        /\ Len(doc.pages) = 3 /\ FullyStored

\* ------------------------------------------- the repository called directly
\* Records a caller may hand to upsert_*: two ids per kind, two values per id
RepoPageRecs ==
    {[id |-> PageId(BookId, n), book_id |-> BookId, page_number |-> n,
      width |-> wd, parse_status |-> "parsed"] : n \in 1..2, wd \in {600, 601}}
RepoSectionRecs ==
    {[id |-> SectionId(BookId, n), book_id |-> BookId,
      parent_section_id |-> NoId, order_index |-> o] : n \in 1..2, o \in {0, 1}}
RepoBlockRecs ==
    {[id |-> BlockId(BookId, n), book_id |-> BookId, page_id |-> PageId(BookId, 1),
      section_id |-> NoId, reading_order |-> o, text |-> {0, n},
      asset_id |-> NoId] : n \in 11..12, o \in {0, 1}}
RepoAssetRecs ==
    {[id |-> AssetId(BookId, n), book_id |-> BookId, page_id |-> PageId(BookId, 1),
      block_id |-> bl] : n \in 11..12, bl \in {NoId, BlockId(BookId, 12)}}

Batches(S) == {<<r>> : r \in S} \cup {<<r1, r2>> : r1 \in S, r2 \in S}

Called(op, recs) == call' = [op |-> op, arg |-> recs, n |-> call.n + 1]

\* repository.py:236-238, 386-402
RepoUpsertPages ==
    /\ call.n < MaxCalls
    /\ \E recs \in Batches(RepoPageRecs) :
        /\ pages' = upsert_pages(pages, recs)
        /\ Called("upsert_pages", recs)
    /\ UNCHANGED <<configVars, sqlVars, jobs, book, sections, blocks, assets, index,
                   localVars, runs,
                   apiVars>>

\* repository.py:240-242, 404-420
RepoUpsertSections ==
    /\ call.n < MaxCalls
    /\ \E recs \in Batches(RepoSectionRecs) :
        /\ sections' = upsert_sections(sections, recs)
        /\ Called("upsert_sections", recs)
    /\ UNCHANGED <<configVars, sqlVars, jobs, book, pages, blocks, assets, index,
                   localVars, runs,
                   apiVars>>

\* repository.py:244-246, 422-444
RepoUpsertBlocks ==
    /\ call.n < MaxCalls
    /\ \E recs \in Batches(RepoBlockRecs) :
        /\ blocks' = upsert_blocks(blocks, recs)
        /\ Called("upsert_blocks", recs)
    /\ UNCHANGED <<configVars, sqlVars, jobs, book, pages, sections, assets, index,
                   localVars, runs,
                   apiVars>>

\* repository.py:248-250, 446-464
RepoUpsertAssets ==
    /\ call.n < MaxCalls
    /\ \E recs \in Batches(RepoAssetRecs) :
        /\ assets' = upsert_assets(assets, recs)
        /\ Called("upsert_assets", recs)
    /\ UNCHANGED <<configVars, sqlVars, jobs, book, pages, sections, blocks, index,
                   localVars, runs,
                   apiVars>>

InitCalls ==
    /\ doc = ParsedBook(0)
    /\ batch_size = 1
    /\ file_present = TRUE
    /\ page_count = NoneInt
    /\ active = {}
    /\ InitRepo
    /\ InitLocals
    /\ InitSql
    /\ InitApi

NextCalls ==
    \/ RepoUpsertPages
    \/ RepoUpsertSections
    \/ RepoUpsertBlocks
    \/ RepoUpsertAssets

SpecRepo == InitCalls /\ [][NextCalls]_vars

\* The last record of the batch with the given id
LatestOf(recs, id) ==
    recs[CHOOSE i \in DOMAIN recs :
            /\ recs[i].id = id
            /\ \A k \in DOMAIN recs : recs[k].id = id => k <= i]

\* What one upsert call must do to its table
Upserted(old, new, recs) ==
    LET ids == {recs[i].id : i \in DOMAIN recs}
    IN  /\ \A id \in ids : {r \in new : r.id = id} = {LatestOf(recs, id)}
        /\ {r \in new : r.id \notin ids} = {r \in old : r.id \notin ids}

\* C7: each of upsert_pages, upsert_sections, upsert_blocks and upsert_assets
\* leaves exactly one stored record per upserted id, holding the values of the
\* latest upsert, and changes no record of another id (nor another table).
C7_UpsertReplacesById ==
    [][call'.n = call.n + 1 =>
          /\ IF call'.op = "upsert_pages"
               THEN Upserted(pages, pages', call'.arg) ELSE pages' = pages
          /\ IF call'.op = "upsert_sections"
               THEN Upserted(sections, sections', call'.arg) ELSE sections' = sections
          /\ IF call'.op = "upsert_blocks"
               THEN Upserted(blocks, blocks', call'.arg) ELSE blocks' = blocks
          /\ IF call'.op = "upsert_assets"
               THEN Upserted(assets, assets', call'.arg) ELSE assets' = assets]_vars

\* a stored block was upserted again under the same id with another value
C7_Witness ==
    /\ call.n = 2 /\ call.op = "upsert_blocks"
    /\ Len(call.arg) = 2
    /\ call.arg[1].id = call.arg[2].id /\ call.arg[1] # call.arg[2]
    /\ blocks = {call.arg[2]}

Min(a, b) == IF a <= b THEN a ELSE b

\* C8: with pages numbered 1..N and batch size B, every change of a job's
\* checkpoint moves it from c to min(c + B, N), and when the page loop has gone
\* through every page the checkpoint is N: from 0 it takes B, 2B, ... and
\* then N.
C8_CheckpointAlignedToBatch ==
    [][/\ \A j \in JobIds :
            jobs'[j].current_page # jobs[j].current_page =>
                jobs'[j].current_page =
                    Min(jobs[j].current_page + batch_size, Len(doc.pages))
       /\ \A w \in active :
            (pc'[w] = "phase_indexing" /\ LoopFinished(w)') =>
                jobs'[job_id'[w]].current_page = Len(doc.pages)]_vars

\* N = 3, B = 2: the first run has written checkpoint 2 and then 3
C8_Witness ==
    /\ Len(doc.pages) = 3 /\ batch_size = 2 /\ runs = 1
    /\ resume[1] = 0
    /\ pc[1] = "final_poll"
    /\ batch_pages[1] # <<>>
    /\ batch_pages[1][1].page_number = 3
    /\ PageId(BookId, 2) \in {r.id : r \in pages}
    /\ JobOf(1).current_page = 3

\* The page, block and asset records of page number n are stored
PageStored(n) ==
    /\ \E i \in DOMAIN doc.pages :
          /\ doc.pages[i].page_number = n
          /\ MakePageRecord(BookId, doc.pages[i]) \in pages
    /\ Range(PageBlockRecords(n)) \subseteq blocks
    /\ Range(PageAssetRecords(n)) \subseteq assets

\* Every page the loop of worker w has taken into a batch is written and the
\* checkpoint names the last of them
AtBatchBoundary(w) ==
    /\ \A i \in 1..Min(pos[w], Len(Sorted)) :
          Sorted[i].page_number > resume[w] => PageStored(Sorted[i].page_number)
    /\ JobOf(w).current_page = last_page_ingested[w]
    /\ pos[w] >= 1 /\ pos[w] <= Len(Sorted) + 1
    /\ JobOf(w).current_page = Sorted[Min(pos[w], Len(Sorted))].page_number

\* C9: the pause flag stops the ingestion only at a poll that comes right after
\* a checkpoint update following the complete write of the batch: a worker
\* leaves the page loop before its end only in a step that read the job as
\* PAUSED with every page taken so far written and checkpointed.
C9_PauseOnlyAtBatchBoundary ==
    [][\A w \in active :
          /\ (paused_stop'[w] /\ ~paused_stop[w]) =>
                (JobOf(w).state = "paused" /\ AtBatchBoundary(w))
          /\ (pc'[w] = "phase_indexing" /\ pc[w] # "phase_indexing"
                /\ ~LoopFinished(w)) =>
                (paused_stop'[w] /\ JobOf(w).state = "paused"
                    /\ AtBatchBoundary(w))]_vars

\* the job was paused before the first batch was complete, and the worker
\* stopped only after that batch and its checkpoint
C9_Witness ==
    /\ pc[1] = "phase_indexing" /\ paused_stop[1]
    /\ ~LoopFinished(1)
    /\ runs = 1 /\ batch_size = 2 /\ Len(doc.pages) = 3
    /\ JobOf(1).current_page = 2
    /\ PageStored(1) /\ PageStored(2) /\ ~PageStored(3)

\* C10: every parsed page whose number is at most a job's checkpoint has its
\* page record and all its block and asset records stored.
C10_CheckpointedPagesStored ==
    \A j \in DOMAIN jobs :
        \A n \in PageNumbers :
            n <= jobs[j].current_page => PageStored(n)

\* between two batches: the checkpoint is behind the document's end and the
\* next batch's page write has happened without its checkpoint
C10_Witness ==
    /\ runs = 1 /\ batch_size = 1 /\ Len(doc.pages) = 3
    /\ pc[1] = "flush_blocks"
    /\ JobOf(1).current_page = 1
    /\ PageStored(1)
    /\ PageId(BookId, 2) \in {r.id : r \in pages}
    /\ ~PageStored(2)

\* C11: when the first run_job of a QUEUED job returns normally, the job is
\* COMPLETED, the book is PARSED and list_blocks_for_book gives exactly one
\* record per parsed block of the document.
C11_ReturnedRunStoredEveryBlock ==
    \A w \in active :
        (Exited(w) /\ result[w].kind = "returned" /\ runs = 1) =>
            /\ JobOf(w).state = "completed"
            /\ book.status = "parsed"
            /\ list_blocks_for_book(blocks, BookId) = AllBlockRecords
            /\ Cardinality(list_blocks_for_book(blocks, BookId)) = Len(doc.blocks)

IndexedBlockIds(b) == {d.block_id : d \in {x \in index : x.book_id = b}}
StoredBlockIds(b) == {r.id : r \in {x \in blocks : x.book_id = b}}

\* C12: the index is fed from the repository: when run_job has returned
\* normally, the block ids indexed for the book are exactly the block ids
\* stored for the book in the repository.
C12_IndexFedFromRepository ==
    \A w \in active :
        (Exited(w) /\ result[w].kind = "returned") =>
            IndexedBlockIds(BookId) = StoredBlockIds(BookId)

\* 3 pages of 2 blocks, batch size 2: 6 stored blocks and 6 index entries
C12_Witness ==
    /\ Exited(1) /\ result[1].kind = "returned" /\ ~paused_stop[1]
    /\ Len(doc.pages) = 3 /\ Len(doc.blocks) = 6 /\ batch_size = 2
    /\ runs = 1
    /\ Cardinality(blocks) = 6
    /\ Cardinality(index) = 6
    /\ \A d \in index : d.book_id = BookId

\* --------------------------------------------- the indexer called directly
OtherBookId == "other"
IndexBooks == {BookId, OtherBookId}
IndexBatches == {S \in SUBSET RepoBlockRecs : Cardinality(S) <= 2}
Terms == UNION {r.text : r \in RepoBlockRecs}

IndexCalled(op, b, S) ==
    call' = [op |-> op, arg |-> <<b, S>>, n |-> call.n + 1,
             prev |-> [op |-> call.op, arg |-> call.arg]]

\* indexing.py:48-60
IndexerIndexBook ==
    /\ call.n < MaxCalls
    /\ \E b \in IndexBooks, S \in IndexBatches :
        /\ index' = index_book(index, b, S)
        /\ IndexCalled("index_book", b, S)
    /\ UNCHANGED <<configVars, sqlVars, repoVars, localVars, runs,
                   apiVars>>

\* indexing.py:62-65
IndexerDeleteBook ==
    /\ call.n < MaxCalls
    /\ \E b \in IndexBooks :
        /\ index' = delete_book_index(index, b)
        /\ IndexCalled("delete_book", b, {})
    /\ UNCHANGED <<configVars, sqlVars, repoVars, localVars, runs,
                   apiVars>>

\* An index that may already hold a document of the other book
InitIndexer ==
    /\ doc = ParsedBook(0)
    /\ batch_size = 1
    /\ file_present = TRUE
    /\ page_count = NoneInt
    /\ active = {}
    /\ jobs = [j \in JobIds |-> NewJob]
    /\ book = [exists |-> TRUE, status |-> "uploaded", page_count |-> NoneInt]
    /\ pages = {} /\ sections = {} /\ blocks = {} /\ assets = {}
    /\ \E S \in {T \in IndexBatches : Cardinality(T) <= 1} :
          index = index_book({}, OtherBookId, S)
    /\ InitLocals
    /\ InitSql
    /\ InitApi

NextIndexer ==
    \/ IndexerIndexBook
    \/ IndexerDeleteBook

SpecIndex == InitIndexer /\ [][NextIndexer]_vars

DocsOf(ix, b) == {d \in ix : d.book_id = b}
DocsNotOf(ix, b) == {d \in ix : d.book_id # b}

\* C13: index_book(book, S2) after index_book(book, S1) leaves exactly the
\* blocks of S2 indexed for the book; a term found in no block of S2 and in no
\* other book's entry gets no hit; the entries of other books are unchanged.
C13_SecondIndexingReplacesFirst ==
    [][(call'.n = call.n + 1 /\ call'.op = "index_book") =>
          LET b == call'.arg[1]
              S2 == call'.arg[2]
          IN  /\ DocsOf(index', b) = {IndexDoc(b, r) : r \in S2}
              /\ DocsNotOf(index', b) = DocsNotOf(index, b)
              /\ \A term \in Terms :
                    ((\A r \in S2 : term \notin r.text)
                        /\ (\A d \in DocsNotOf(index, b) : term \notin d.text))
                    => search(index', term) = {}]_vars

\* the book was indexed with S1, then with S2; a term of an S1 block that is
\* not in S2 has no hit, while the other book's entry is still there
C13_Witness ==
    /\ call.n = 2 /\ call.op = "index_book" /\ call.prev.op = "index_book"
    /\ call.arg[1] = BookId /\ call.prev.arg[1] = BookId
    /\ \E r \in call.prev.arg[2] :
          /\ r \notin call.arg[2]
          /\ \E term \in r.text :
                /\ search(index, term) = {}
                /\ \A x \in call.arg[2] : term \notin x.text
    /\ call.arg[2] # {}
    /\ DocsOf(index, OtherBookId) # {}

\* C14: when run_job exits with the not-found error of a missing source file,
\* the job is FAILED and the book is FAILED.
C14_MissingFileMarksFailed ==
    \A w \in active :
        (Exited(w) /\ result[w] = [kind |-> "raised", msg |-> "pdf not found"]) =>
            /\ JobOf(w).state = "failed"
            /\ book.status = "failed"

\* C15: an error raised after the job was set RUNNING (in PRECHECK, PARSE,
\* DB_INGESTION or INDEXING) is recorded before it is propagated: the job is
\* FAILED when the handler is about to re-raise, and when run_job has exited
\* with the error the job is FAILED, never RUNNING.
C15_FailedBeforePropagation ==
    \A w \in active :
        /\ pc[w] = "fail_book" => JobOf(w).state = "failed"
        /\ (Exited(w) /\ result[w].kind = "raised" /\ exc[w] # NoMsg) =>
              JobOf(w).state = "failed"

\* run_job exited with a write error raised during DB_INGESTION
C15_Witness ==
    /\ Exited(1) /\ result[1] = [kind |-> "raised", msg |-> "write failed"]
    /\ JobOf(1).phase = "db_ingestion"
    /\ JobOf(1).state = "failed"
    /\ JobOf(1).error_message = "write failed"

NextPhase(ph) ==
    CASE ph = "precheck" -> "docling_parse"
      [] ph = "docling_parse" -> "db_ingestion"
      [] ph = "db_ingestion" -> "indexing"
      [] ph = "indexing" -> "none"

\* The phase run_job is in at each point of its try block
PhaseAt(p) ==
    CASE p \in {"book_parsing", "precheck", "total_pages", "phase_parse"} -> "precheck"
      [] p \in {"parse", "phase_ingest"} -> "docling_parse"
      [] p \in {"index", "complete_job", "complete_book"} -> "indexing"
      [] OTHER -> "db_ingestion"

InTry(p) == p \notin {"idle", "set_running", "fail_job", "fail_book"}

\* C16: within one run_job the job's phase goes PRECHECK, DOCLING_PARSE,
\* DB_INGESTION, INDEXING in that order, one step at a time (the only other
\* phase write is the PRECHECK that opens the execution); the except handler
\* leaves the phase at the phase in which the error was raised.
C16_PhasesInOrder ==
    [][\A w \in active :
          LET j == job_id[w]
          IN  /\ InTry(pc[w]) => jobs[j].phase = PhaseAt(pc[w])
              /\ (InTry(pc[w]) /\ jobs'[j].phase # jobs[j].phase) =>
                    jobs'[j].phase = NextPhase(jobs[j].phase)
              /\ pc[w] = "set_running" => jobs'[j].phase = "precheck"
              /\ (InTry(pc[w]) /\ pc'[w] = "fail_job") =>
                    jobs'[j].phase = PhaseAt(pc[w])
              /\ pc[w] \in {"fail_job", "fail_book"} =>
                    jobs'[j].phase = jobs[j].phase
              /\ (pc[w] = "complete_book" /\ pc'[w] = "idle") =>
                    jobs'[j].phase = "indexing"]_vars

\* a write of the ingestion failed and run_job exited with the job still in
\* DB_INGESTION, after PRECHECK and DOCLING_PARSE
C16_Witness ==
    /\ Exited(1) /\ result[1].kind = "raised" /\ exc[1] = "write failed"
    /\ JobOf(1).state = "failed" /\ JobOf(1).phase = "db_ingestion"
    /\ pages # {} /\ JobOf(1).current_page > 0

\* ------------------------------------- update_job_state_phase called directly
JobArgs ==
    [j : JobIds \cup {3},
     state : {NoArg, "running"},
     phase : {NoArg, "indexing"},
     current_page : {NoneInt, 0, 2},
     total_pages : {NoneInt, 3},
     error_message : {NoMsg, "boom"}]

\* repository.py:212-234, 357-381
RepoUpdateJob ==
    /\ call.n < MaxCalls
    /\ \E a \in JobArgs :
        /\ jobs' = update_job_state_phase(jobs, a.j, a.state, a.phase,
                                          a.current_page, a.total_pages,
                                          a.error_message)
        /\ call' = [op |-> "update_job", arg |-> a, n |-> call.n + 1,
                    prev |-> [op |-> call.op, arg |-> call.arg]]
    /\ UNCHANGED <<configVars, sqlVars, book, contentVars, index, localVars, runs,
                   apiVars>>

NextJobs == RepoUpdateJob

SpecJobs == InitCalls /\ [][NextJobs]_vars

\* C17: update_job_state_phase changes exactly the fields passed as non-None
\* on the job with the given id; its other fields, every other job, and
\* everything else are unchanged; an unknown job id changes nothing.
C17_UpdateJobChangesOnlyGiven ==
    [][(call'.n = call.n + 1 /\ call'.op = "update_job") =>
          LET a == call'.arg
          IN  /\ DOMAIN jobs' = DOMAIN jobs
              /\ \A k \in DOMAIN jobs : k # a.j => jobs'[k] = jobs[k]
              /\ a.j \in DOMAIN jobs =>
                    /\ jobs'[a.j].state =
                          IF a.state = NoArg THEN jobs[a.j].state ELSE a.state
                    /\ jobs'[a.j].phase =
                          IF a.phase = NoArg THEN jobs[a.j].phase ELSE a.phase
                    /\ jobs'[a.j].current_page =
                          IF a.current_page = NoneInt THEN jobs[a.j].current_page
                                                      ELSE a.current_page
                    /\ jobs'[a.j].total_pages =
                          IF a.total_pages = NoneInt THEN jobs[a.j].total_pages
                                                     ELSE a.total_pages
                    /\ jobs'[a.j].error_message =
                          IF a.error_message = NoMsg THEN jobs[a.j].error_message
                                                     ELSE a.error_message
              /\ a.j \notin DOMAIN jobs => jobs' = jobs
              /\ book' = book /\ contentVars' = contentVars /\ index' = index]_vars

\* job 1 was given checkpoint 2 and a state, then checkpoint 0 alone: the
\* checkpoint is 0 and the state is kept
C17_Witness ==
    /\ call.n = 2 /\ call.op = "update_job" /\ call.prev.op = "update_job"
    /\ call.prev.arg.j = 1 /\ call.prev.arg.current_page = 2
    /\ call.prev.arg.state = "running"
    /\ call.arg = [j |-> 1, state |-> NoArg, phase |-> NoArg, current_page |-> 0,
                   total_pages |-> NoneInt, error_message |-> NoMsg]
    /\ jobs[1].current_page = 0 /\ jobs[1].state = "running"
    /\ jobs[2] = NewJob

\* C18: a job in state FAILED, whether run_job's handler or cancel_job put it
\* there, has an error_message.
C18_FailedJobHasMessage ==
    \A j \in DOMAIN jobs :
        jobs[j].state = "failed" => jobs[j].error_message # NoMsg

\* one job failed in run_job, the other was cancelled
C18_Witness ==
    /\ jobs[2].state = "failed" /\ jobs[2].error_message = "write failed"
    /\ jobs[1].state = "failed" /\ jobs[1].error_message = "Cancelled by user"

RowsOf(rows, b) == {r \in rows : r.book_id = b}

WorkerInitParams ==
    {"repository", "storage", "engine", "indexer", "batch_size",
     "persist_engine_output"}

\* dependencies.py:46-54: the keyword arguments build_worker passes
BuildWorkerArgs ==
    {"repository", "storage", "engine", "indexer", "batch_size",
     "persist_engine_output", "render_page_previews"}

\* An unexpected keyword argument makes the constructor raise TypeError
build_worker_raises == ~(BuildWorkerArgs \subseteq WorkerInitParams)

\* documents.py:199-207
UploadedJob ==
    [state |-> "queued", phase |-> "precheck", current_page |-> 0,
     total_pages |-> NoneInt, error_message |-> NoMsg]

Uploaded(outcome) == call' = [op |-> "upload", arg |-> outcome, n |-> call.n + 1]

\* documents.py:154-210, for a title whose derived book id is BookId; the job
\* id "job-<book id>" is job 1
UploadDocument ==
    /\ call.n < MaxCalls
    /\ IF book.exists
         THEN /\ Uploaded("rejected")
              /\ UNCHANGED <<file_present, book, jobs>>
       ELSE IF build_worker_raises
         THEN /\ file_present' = TRUE
              /\ Uploaded("error")
              /\ UNCHANGED <<book, jobs>>
       ELSE /\ file_present' = TRUE
            /\ book' = [exists |-> TRUE, status |-> "uploaded",
                        page_count |-> NoneInt]
            /\ jobs' = [j \in DOMAIN jobs \cup {1} |->
                          IF j = 1 THEN UploadedJob ELSE jobs[j]]
            /\ Uploaded("created")
    /\ UNCHANGED <<doc, batch_size, page_count, active, contentVars, index,
                   localVars, runs, sqlVars,
                   apiVars>>

\* A repository with nothing stored
EmptyRepo ==
    /\ jobs = <<>>
    /\ book = NoBook
    /\ pages = {} /\ sections = {} /\ blocks = {} /\ assets = {}
    /\ index = {}

\* Either nothing is stored yet, or the book and its jobs are
InitUpload ==
    /\ doc = ParsedBook(2)
    /\ batch_size = 1
    /\ page_count = NoneInt
    /\ active = {1}
    /\ \/ EmptyRepo /\ file_present = FALSE
       \/ InitRepo /\ file_present \in BOOLEAN
    /\ InitLocals
    /\ InitSql
    /\ InitApi

NextUpload ==
    \/ NextCancel
    \/ UploadDocument

SpecUpload == InitUpload /\ [][NextUpload]_vars

\* C20: an upload whose derived book id is already stored is rejected and
\* leaves the book, the jobs and the content records unchanged; any other
\* upload stores the book with status UPLOADED and its job QUEUED, in phase
\* PRECHECK, at checkpoint 0.
C20_UploadRejectsOrCreates ==
    [][(call'.n = call.n + 1 /\ call'.op = "upload") =>
          IF book.exists
            THEN /\ call'.arg = "rejected"
                 /\ book' = book /\ jobs' = jobs
                 /\ contentVars' = contentVars
            ELSE /\ book'.exists /\ book'.status = "uploaded"
                 /\ 1 \in DOMAIN jobs'
                 /\ jobs'[1].state = "queued"
                 /\ jobs'[1].phase = "precheck"
                 /\ jobs'[1].current_page = 0]_vars

FlushPcs == {"flush_pages", "flush_blocks", "flush_assets", "flush_checkpoint",
             "final_pages", "final_blocks", "final_assets", "final_checkpoint"}

\* C21 as stated: with an empty page list the ingestion writes no page,
\* section, block or asset record, raises no error, leaves the checkpoint
\* unchanged, and the job ends COMPLETED.
C21_EmptyPagesWriteNothing ==
    doc.pages = <<>> =>
        /\ pages = {} /\ sections = {} /\ blocks = {} /\ assets = {}
        /\ \A j \in DOMAIN jobs : jobs[j].current_page = 0
        /\ \A w \in active :
              /\ pc[w] \notin FlushPcs
              /\ (Exited(w) /\ result[w].kind = "returned") =>
                    JobOf(w).state = "completed"

\* C21, amended: with an empty page list the ingestion writes no page, block
\* or asset record and attempts no flush; the only records it writes are the
\* section records of the parsed document; the checkpoint is unchanged and a
\* run_job that returns leaves the job COMPLETED with those sections stored.
C21_EmptyPagesWriteOnlySections ==
    doc.pages = <<>> =>
        /\ pages = {} /\ blocks = {} /\ assets = {}
        /\ sections \subseteq AllSectionRecords
        /\ \A j \in DOMAIN jobs : jobs[j].current_page = 0
        /\ \A w \in active :
              /\ pc[w] \notin FlushPcs
              /\ (Exited(w) /\ result[w].kind = "returned") =>
                    /\ JobOf(w).state = "completed"
                    /\ sections = AllSectionRecords

\* a run over a document with sections and no page returned
C21_Witness ==
    /\ doc.pages = <<>> /\ doc.sections # <<>>
    /\ Exited(1) /\ result[1].kind = "returned"
    /\ JobOf(1).state = "completed" /\ JobOf(1).current_page = 0
    /\ sections # {} /\ pages = {}

\* ------------------------------------- the two repositories side by side
NoJob == [state |-> "absent"]

\* repository.py:209-210, 340-356: the record is stored under its id
save_job(js, j, rec) ==
    [k \in DOMAIN js \cup {j} |-> IF k = j THEN rec ELSE js[k]]

\* InMemoryParsingRepository.get_job: a copy of the stored record
get_job(js, j) == IF j \in DOMAIN js THEN js[j] ELSE NoJob

\* Python truth of a numeric column value: NULL and 0 are false
Truthy(x) == x # NoneInt /\ x # 0

\* int(x or 0)
IntOrZero(x) == IF Truthy(x) THEN x ELSE 0

\* SqlAlchemyParsingRepository.get_job: current_page is int(x or 0),
\* total_pages is int(x or 0) when the column is truthy and None otherwise
sql_get_job(rows, j) ==
    IF j \notin DOMAIN rows THEN NoJob
    ELSE [state |-> rows[j].state,
          phase |-> rows[j].phase,
          current_page |-> IntOrZero(rows[j].current_page),
          total_pages |-> IF Truthy(rows[j].total_pages)
                            THEN IntOrZero(rows[j].total_pages)
                            ELSE NoneInt,
          error_message |-> rows[j].error_message]

\* SqlAlchemyParsingRepository.list_blocks_for_book: the rows of the book,
\* reading_order read back as int(x or 0)
sql_list_blocks_for_book(rows, b) ==
    {[r EXCEPT !.reading_order = IntOrZero(@)] : r \in {x \in rows : x.book_id = b}}

SavedJobs ==
    [state : {"queued", "running"}, phase : {"precheck"},
     current_page : {0, 2}, total_pages : {NoneInt, 0, 3},
     error_message : {NoMsg}]

EquivJobArgs ==
    [j : JobIds, state : {NoArg, "completed"}, phase : {NoArg},
     current_page : {NoneInt, 1}, total_pages : {NoneInt, 0, 3},
     error_message : {NoMsg, "boom"}]

BothCalled(op) == call' = [op |-> op, arg |-> <<>>, n |-> call.n + 1]

\* save_job on both repositories
BothSaveJob ==
    /\ call.n < MaxCalls
    /\ \E j \in JobIds, rec \in SavedJobs :
        /\ jobs' = save_job(jobs, j, rec)
        /\ sql_jobs' = save_job(sql_jobs, j, rec)
    /\ BothCalled("save_job")
    /\ UNCHANGED <<configVars, book, contentVars, index, localVars, runs,
                   sql_blocks,
                   apiVars>>

\* update_job_state_phase on both repositories
BothUpdateJob ==
    /\ call.n < MaxCalls
    /\ \E a \in EquivJobArgs :
        /\ jobs' = update_job_state_phase(jobs, a.j, a.state, a.phase,
                                          a.current_page, a.total_pages,
                                          a.error_message)
        /\ sql_jobs' = update_job_state_phase(sql_jobs, a.j, a.state, a.phase,
                                              a.current_page, a.total_pages,
                                              a.error_message)
    /\ BothCalled("update_job")
    /\ UNCHANGED <<configVars, book, contentVars, index, localVars, runs,
                   sql_blocks,
                   apiVars>>

\* upsert_blocks on both repositories
BothUpsertBlocks ==
    /\ call.n < MaxCalls
    /\ \E recs \in Batches(RepoBlockRecs) :
        /\ blocks' = upsert_blocks(blocks, recs)
        /\ sql_blocks' = upsert_blocks(sql_blocks, recs)
    /\ BothCalled("upsert_blocks")
    /\ UNCHANGED <<configVars, jobs, book, pages, sections, assets, index,
                   localVars, runs, sql_jobs,
                   apiVars>>

\* Two empty repositories
InitEquiv ==
    /\ doc = ParsedBook(0)
    /\ batch_size = 1
    /\ file_present = TRUE
    /\ page_count = NoneInt
    /\ active = {}
    /\ EmptyRepo
    /\ InitLocals
    /\ InitSql
    /\ InitApi

NextEquiv ==
    \/ BothSaveJob
    \/ BothUpdateJob
    \/ BothUpsertBlocks

SpecEquiv == InitEquiv /\ [][NextEquiv]_vars

\* C22: after every sequence of save_job, update_job_state_phase and
\* upsert_blocks applied to both repositories, get_job returns the same
\* state, phase, current_page, total_pages and error_message from both, and
\* list_blocks_for_book the same block set.
C22_RepositoriesAgree ==
    /\ \A j \in JobIds : get_job(jobs, j) = sql_get_job(sql_jobs, j)
    /\ list_blocks_for_book(blocks, BookId) = sql_list_blocks_for_book(sql_blocks, BookId)

\* The run_job call of this step is made by worker w
Starts(w) == w \in active /\ pc[w] = "idle" /\ runs' = runs + 1

\* C23: a run_job whose job id is not stored, or whose book is not stored,
\* raises to its caller without starting the pipeline (the engine is not
\* invoked) and writes no job, book, content record or index entry.
C23_UnknownJobOrBookChangesNothing ==
    [][\A w \in AllWorkers :
          (Starts(w) /\ (job_id'[w] \notin DOMAIN jobs \/ ~book.exists)) =>
              /\ result'[w].kind = "raised"
              /\ result'[w].msg \in {"job not found", "book not found"}
              /\ pc'[w] = "idle"
              /\ UNCHANGED <<repoVars, index>>]_vars

C23_Witness ==
    /\ jobs = <<>>
    /\ ~book.exists
    /\ Exited(1)
    /\ result[1] = [kind |-> "raised", msg |-> "job not found"]
    /\ pages = {} /\ sections = {} /\ blocks = {} /\ assets = {} /\ index = {}

\* The run_job of worker w is handling, or has exited with, a write error
\* raised during DB_INGESTION, that is by one of the writes of a flush
FlushFailed(w) ==
    /\ exc[w] = "write failed"
    /\ JobOf(w).phase = "db_ingestion"
    /\ \/ pc[w] \in {"fail_job", "fail_book"}
       \/ Exited(w) /\ result[w].kind = "raised"

\* The page numbers this run flushed in the batches before the failing one
FlushedBefore(w) ==
    {Sorted[i].page_number : i \in
        {k \in DOMAIN Sorted : /\ Sorted[k].page_number > resume[w]
                               /\ Sorted[k].page_number < batch_pages[w][1].page_number}}

Max(S) == CHOOSE x \in S : \A y \in S : y <= x

\* C24: when a write of the flush of batch k fails, the page, block and asset
\* records of the batches 1..k-1 of the run are still stored, the checkpoint
\* is the last page number of batch k-1 (the checkpoint the run started from
\* when k = 1), and the job ends FAILED.
C24_FailedFlushKeepsEarlierBatches ==
    \A w \in active :
        FlushFailed(w) =>
            /\ batch_pages[w] # <<>>
            /\ \A n \in FlushedBefore(w) : PageStored(n)
            /\ JobOf(w).current_page =
                  IF FlushedBefore(w) = {} THEN resume[w] ELSE Max(FlushedBefore(w))
            /\ pc[w] # "fail_job" => JobOf(w).state = "failed"

\* batch 2 of a run from checkpoint 0 failed after its page write: page 1
\* is stored whole, page 2 only in part, the checkpoint is 1
C24_Witness ==
    /\ batch_size = 1 /\ resume[1] = 0 /\ runs = 1
    /\ FlushFailed(1) /\ Exited(1)
    /\ batch_pages[1][1].page_number = 2
    /\ PageStored(1) /\ ~PageStored(2)
    /\ PageId(BookId, 2) \in {r.id : r \in pages}
    /\ JobOf(1).current_page = 1
    /\ JobOf(1).state = "failed"

\* The (id, reading_order) pairs a parsed document determines for book b
BlockKeys(b, d) ==
    {<<<<b, "blk", d.blocks[i].id>>, d.blocks[i].reading_order>> :
        i \in DOMAIN d.blocks}

KeysOf(recs) == {<<r.id, r.reading_order>> : r \in recs}

\* C25: the id of a block record is a function of the book id and the parsed
\* block's own id only, and its reading_order is the parsed block's: whatever
\* run builds or stores a block record of the document, its id and
\* reading_order are those the document determines, so two runs over the same
\* document and book produce the same ids and reading orders.
C25_BlockIdsDeterministic ==
    /\ KeysOf(blocks) \subseteq BlockKeys(BookId, doc)
    /\ \A w \in active : KeysOf(Range(batch_blocks[w])) \subseteq BlockKeys(BookId, doc)
    /\ \A w \in active :
          (Exited(w) /\ result[w].kind = "returned" /\ LoopFinished(w)
             /\ ~paused_stop[w]) => KeysOf(blocks) = BlockKeys(BookId, doc)

\* a second run (job 2, from checkpoint 0) has written the blocks of its
\* first batch over those the first run stored
C25_Witness ==
    /\ runs = 2 /\ job_id[1] = 2 /\ resume[1] = 0
    /\ jobs[1].current_page = Len(doc.pages)
    /\ pc[1] = "flush_assets"
    /\ batch_blocks[1] # <<>>
    /\ Range(batch_blocks[1]) \subseteq blocks
    /\ KeysOf(blocks) = BlockKeys(BookId, doc)

\* Worker w takes the write step of its position in this step
Writes(w, at) == pc[w] \in at /\ pc'[w] \notin {pc[w], "fail_job"}

\* C26: cancel_job does not stop a pipeline that is executing for the same
\* book: a flush write the pipeline makes after cancel_job removed the book
\* stores its batch all the same, so rows of a cancelled book come to be
\* stored.
C26_PipelineWritesAfterCancel ==
    [][\A w \in active :
          ~book.exists =>
              /\ Writes(w, {"flush_pages", "final_pages"}) =>
                    /\ batch_pages[w] # <<>>
                    /\ Range(batch_pages[w]) \subseteq pages'
              /\ Writes(w, {"flush_blocks", "final_blocks"}) =>
                    Range(batch_blocks[w]) \subseteq blocks'
              /\ Writes(w, {"flush_assets", "final_assets"}) =>
                    Range(batch_assets[w]) \subseteq assets']_vars

\* job 1 was cancelled while its pipeline was in the page loop; the pipeline
\* went on and page, block and asset rows of the removed book are stored
C26_Witness ==
    /\ ~book.exists
    /\ jobs[1].error_message = "Cancelled by user"
    /\ job_id[1] = 1 /\ runs = 1
    /\ RowsOf(pages, BookId) # {}
    /\ RowsOf(blocks, BookId) # {}
    /\ RowsOf(assets, BookId) # {}

SectionIds == {s.id : s \in sections}

\* C27: every stored block whose section_id is not null refers to a stored
\* section record, because a run stores all the sections of the parsed
\* document before it writes its first page batch.
C27_BlockSectionsStored ==
    /\ \A r \in blocks : r.section_id # NoId => r.section_id \in SectionIds
    /\ \A w \in active : pc[w] \in FlushPcs => AllSectionRecords \subseteq sections

\* the first batch's blocks are written, one of them with a section
C27_Witness ==
    /\ runs = 1
    /\ pc[1] = "flush_assets"
    /\ \E r \in blocks : r.section_id = SectionId(BookId, 1)
    /\ \E r \in blocks : r.section_id = NoId
    /\ Cardinality(sections) = Len(doc.sections)

PageIds == {p.id : p \in pages}

\* C28: in every state, between the writes of a flush and after a flush that
\* failed part-way included, every stored block and every stored asset has
\* the page_id of a stored page record: a flush writes its pages first, then
\* its blocks, then its assets.
C28_PageOfBlocksAndAssetsStored ==
    /\ \A r \in blocks : r.page_id \in PageIds
    /\ \A r \in assets : r.page_id \in PageIds

\* the asset write of the first flush failed: the run has exited with the
\* batch's pages and blocks stored and its assets not
C28_Witness ==
    /\ runs = 1 /\ Exited(1) /\ FlushFailed(1)
    /\ batch_blocks[1] # <<>> /\ batch_assets[1] # <<>>
    /\ Range(batch_blocks[1]) \subseteq blocks
    /\ Range(batch_assets[1]) \cap assets = {}
    /\ \A i \in DOMAIN batch_pages[1] : batch_pages[1][i] \in pages

\* The positions of run_job inside the page loop and its flushes
IngestPcs == {"loop", "flush_poll", "final_poll"} \cup FlushPcs

\* The stored page, block and asset records of page number n
RecordsOfPage(n) ==
    <<{r \in pages : r.id = PageId(BookId, n)},
      {r \in blocks : r.page_id = PageId(BookId, n)},
      {r \in assets : r.page_id = PageId(BookId, n)}>>

\* C29: a run that started with checkpoint c takes no page numbered <= c into
\* a batch, so it writes no page, block or asset record of such a page, and
\* the stored records of those pages stay as they are in every step of the
\* run.
C29_PagesUpToCheckpointUntouched ==
    [][\A w \in active :
          /\ pc[w] \in IngestPcs =>
                /\ \A i \in DOMAIN batch_pages[w] :
                      batch_pages[w][i].page_number > resume[w]
                /\ \A i \in DOMAIN batch_blocks[w] :
                      batch_blocks[w][i].page_id \notin
                          {PageId(BookId, n) : n \in 1..resume[w]}
                /\ \A i \in DOMAIN batch_assets[w] :
                      batch_assets[w][i].page_id \notin
                          {PageId(BookId, n) : n \in 1..resume[w]}
          /\ pc[w] # "idle" =>
                \A n \in 1..resume[w] : RecordsOfPage(n)' = RecordsOfPage(n)]_vars

\* a second run that started from checkpoint 2 is writing page 3
C29_Witness ==
    /\ runs = 2 /\ resume[1] = 2
    /\ pc[1] = "final_blocks"
    /\ Len(batch_pages[1]) = 1 /\ batch_pages[1][1].page_number = 3
    /\ batch_pages[1][1] \in pages
    /\ PageStored(1) /\ PageStored(2) /\ ~PageStored(3)

\* The parsed block a block record was made from
ParsedBlockOf(r) ==
    CHOOSE x \in Range(doc.blocks) : r.id = <<BookId, "blk", x.id>>

\* The positions of a section_path whose entry is a section of the document
KnownAt(path) ==
    {i \in DOMAIN path : path[i] \in {s.id : s \in Range(doc.sections)}}

\* C30: the section_id of every stored block is the record id of the first
\* entry of the parsed block's section_path that is a section of the parsed
\* document, and null when the path has no such entry.
C30_SectionIsFirstKnownOfPath ==
    \A r \in blocks :
        LET path == ParsedBlockOf(r).section_path
            at == KnownAt(path)
        IN  r.section_id =
                IF at = {} THEN NoId
                ELSE <<BookId, "sec", path[CHOOSE i \in at : \A k \in at : i <= k]>>

\* stored: a block whose path starts with an unknown entry followed by two
\* sections of the document, and a block with an empty path
C30_Witness ==
    /\ \E r \in blocks :
          /\ Len(ParsedBlockOf(r).section_path) = 3
          /\ KnownAt(ParsedBlockOf(r).section_path) = {2, 3}
          /\ r.section_id = <<BookId, "sec", 1>>
    /\ \E r \in blocks :
          /\ ParsedBlockOf(r).section_path = <<>>
          /\ r.section_id = NoId

\* ------------------------------------------- assets and the blocks owning them
\* A ParsedBook of two pages with one asset, on page pa, that the parsed
\* blocks of the ids refs refer to (models.py: ParsedBlock.asset_id,
\* ParsedAsset.page_number are independent fields)
FigureId == 50

AssetDoc(pa, refs) ==
    LET base == ParsedBook(2)
    IN  [pages |-> base.pages,
         sections |-> base.sections,
         blocks |-> [i \in DOMAIN base.blocks |->
                       [base.blocks[i] EXCEPT
                          !.asset_id = IF base.blocks[i].id \in refs
                                         THEN FigureId ELSE NoSrc]],
         assets |-> << [id |-> FigureId, page_number |-> pa] >>]

AssetDocs == {AssetDoc(pa, refs) : pa \in 1..2, refs \in {{}, {11}, {21}}}

InitAssets ==
    /\ doc \in AssetDocs
    /\ batch_size \in 1..MaxBatch
    /\ file_present = TRUE
    /\ page_count = NoneInt
    /\ active = {1}
    /\ InitRepo
    /\ InitLocals
    /\ InitSql
    /\ InitApi

SpecAssets == InitAssets /\ [][Next]_vars

\* The ids of the parsed blocks that refer to the parsed asset of record a
ReferringBlocks(a) ==
    {<<BookId, "blk", doc.blocks[i].id>> :
        i \in {k \in DOMAIN doc.blocks :
                 <<BookId, "asset", doc.blocks[k].asset_id>> = a.id}}

\* C31: the block_id of every stored asset is the id of a block that refers
\* to the asset, and it is null exactly when no parsed block refers to the
\* asset, whatever pages the block and the asset are on.
C31_AssetLinkedToReferringBlock ==
    \A a \in assets :
        /\ a.block_id = NoId <=> ReferringBlocks(a) = {}
        /\ a.block_id # NoId => a.block_id \in ReferringBlocks(a)

\* C32: the PRECHECK writes leave the book's page_count and the job's
\* total_pages as they were when count_pages reports None, and the run goes on
\* to PARSE; when count_pages reports a number n, the book's page_count and
\* the total_pages that get_job returns for the job are n.
C32_PageCountStoredOnJobAndBook ==
    [][\A w \in active :
          /\ (pc[w] = "precheck" /\ pc'[w] = "total_pages") =>
                book'.page_count =
                    IF page_count = NoneInt THEN book.page_count ELSE page_count
          /\ (pc[w] = "total_pages" /\ pc'[w] # pc[w]) =>
                /\ pc'[w] = "phase_parse"
                /\ sql_get_job(jobs', job_id[w]).total_pages =
                      IF page_count = NoneInt
                        THEN sql_get_job(jobs, job_id[w]).total_pages
                        ELSE page_count
                /\ get_job(jobs', job_id[w]).total_pages =
                      IF page_count = NoneInt
                        THEN get_job(jobs, job_id[w]).total_pages
                        ELSE page_count]_vars

\* ------------------------------------------------------------ build_book_id
\* Titles are short strings over an upper-case letter, its lower-case form, a
\* blank and a punctuation mark
TitleChars == {"M", "m", " ", "!"}
MaxTitleLen == 2
Titles == UNION {[1..n -> TitleChars] : n \in 1..MaxTitleLen}
Contents == {"pdf-a", "pdf-b"}

\* str.lower on one character
Lower(c) == IF c = "M" THEN "m" ELSE c

\* str.isalnum on one character
IsAlnum(c) == c \in {"M", "m"}

RECURSIVE LStrip(_, _)
LStrip(s, ch) == IF s # <<>> /\ Head(s) = ch THEN LStrip(Tail(s), ch) ELSE s

RECURSIVE RStrip(_, _)
RStrip(s, ch) ==
    IF s # <<>> /\ s[Len(s)] = ch THEN RStrip(SubSeq(s, 1, Len(s) - 1), ch) ELSE s

\* str.strip(ch)
Strip(s, ch) == RStrip(LStrip(s, ch), ch)

\* dependencies.py:58: title.strip().lower()
Normalize(title) ==
    LET t == Strip(title, " ") IN [i \in DOMAIN t |-> Lower(t[i])]

\* dependencies.py:59: non-alphanumerics become "-", outer "-" are stripped,
\* an empty slug becomes "book"
Slug(normalized) ==
    LET dashed == [i \in DOMAIN normalized |->
                     IF IsAlnum(normalized[i]) THEN normalized[i] ELSE "-"]
        s == Strip(dashed, "-")
    IN  IF s = <<>> THEN <<"b", "o", "o", "k">> ELSE s

\* hashlib.md5(...).hexdigest(): a value that stands for the digest of x
Md5(x) == <<"md5", x>>

\* dependencies.py:57-61: the slug and the digest of the normalized title
build_book_id(title) == <<Slug(Normalize(title)), Md5(Normalize(title))>>

\* documents.py:154-210 for any title and any non-empty payload
SubmitDocument ==
    /\ call.n < MaxCalls
    /\ \E title \in Titles, payload \in Contents :
        LET book_id == build_book_id(title)
            outcome == IF book_id \in DOMAIN library THEN "rejected"
                       ELSE IF build_worker_raises THEN "error"
                       ELSE "created"
        IN  /\ library' = IF outcome = "created"
                            THEN [k \in DOMAIN library \cup {book_id} |->
                                    IF k = book_id THEN Md5(payload) ELSE library[k]]
                            ELSE library
            /\ call' = [op |-> "submit",
                        arg |-> [title |-> title, payload |-> payload,
                                 book_id |-> book_id, outcome |-> outcome],
                        n |-> call.n + 1,
                        prev |-> [op |-> call.op, arg |-> call.arg]]
    /\ UNCHANGED <<configVars, sqlVars, repoVars, index, localVars, runs>>

\* Nothing stored, or one book stored earlier under the id of its title
\* (main.py:115-142 derives the id in the same way)
InitSubmit ==
    /\ doc = ParsedBook(0)
    /\ batch_size = 1
    /\ file_present = TRUE
    /\ page_count = NoneInt
    /\ active = {}
    /\ EmptyRepo
    /\ InitLocals
    /\ InitSql
    /\ \/ library = <<>>
       \/ library = [k \in {build_book_id(<<"M">>)} |-> Md5("pdf-a")]

NextSubmit == SubmitDocument

SpecSubmit == InitSubmit /\ [][NextSubmit]_vars

\* C33: the book id of a submission is derived from the title and the content
\* hash of the file: two submissions with the same title and different file
\* contents get different book ids, and a submission is rejected as already
\* existing only when the stored book of its id has the same content.
C33_BookIdDependsOnContent ==
    /\ (call.op = "submit" /\ call.prev.op = "submit"
          /\ call.arg.title = call.prev.arg.title
          /\ call.arg.payload # call.prev.arg.payload) =>
             call.arg.book_id # call.prev.arg.book_id
    /\ (call.op = "submit" /\ call.arg.outcome = "rejected") =>
             library[call.arg.book_id] = Md5(call.arg.payload)

\* ------------------------------------------------------------- termination
\* One step of the run_job call of worker w after its start
RunStep(w) ==
    \/ SetRunning(w)
    \/ BookParsing(w)
    \/ Precheck(w)
    \/ SetTotalPages(w)
    \/ PhaseParse(w)
    \/ Parse(w)
    \/ ParseRaises(w)
    \/ PhaseIngest(w)
    \/ UpsertSections(w)
    \/ IngestPage(w)
    \/ LoopEnd(w)
    \/ FlushPages(w)
    \/ FlushBlocks(w)
    \/ FlushAssets(w)
    \/ UpdateCheckpoint(w)
    \/ PollPause(w)
    \/ PhaseIndexing(w)
    \/ IndexBook(w)
    \/ CompleteJob(w)
    \/ CompleteBook(w)
    \/ WriteRaises(w)
    \/ FailJob(w)
    \/ FailBook(w)

\* run_job calls with no actor outside the pipeline
NextAlone ==
    \/ \E w \in AllWorkers, j \in JobIds : StartRunJob(w, j)
    \/ \E w \in AllWorkers : RunStep(w)

\* The source file is present, so that run_job gets to its RUNNING write
InitAlone ==
    /\ doc \in Docs
    /\ batch_size \in 1..MaxBatch
    /\ file_present = TRUE
    /\ page_count = NoneInt
    /\ active = {1}
    /\ InitRepo
    /\ InitLocals
    /\ InitSql
    /\ InitApi

\* Every call the pipeline makes returns or raises: a started run_job keeps
\* taking steps (one synchronous thread of control, worker.py:49-84)
SpecAlone ==
    InitAlone /\ [][NextAlone]_vars /\ WF_vars(\E w \in AllWorkers : RunStep(w))

\* C34: with no actor outside the pipeline writing the job and every call
\* returning or raising, a job that run_job set RUNNING eventually is
\* COMPLETED or FAILED.
C34_RunningJobReachesTerminal ==
    \A j \in JobIds :
        (jobs[j].state = "running") ~> (jobs[j].state \in {"completed", "failed"})

\* a run went through a three-page document in two batches and completed
C34_Witness ==
    /\ Len(doc.pages) = 3 /\ batch_size = 2 /\ runs = 1
    /\ Exited(1) /\ result[1].kind = "returned"
    /\ JobOf(1).state = "completed"
    /\ JobOf(1).current_page = 3
    /\ pos[1] = 4

\* Every run_job so far was for job j: the other jobs are as created
OnlyJobRun(j) == \A k \in JobIds \ {j} : jobs[k] = NewJob

\* C35: over the sequential run_job executions of one job, the job's
\* current_page never decreases, and whenever it changes the new value is the
\* number of a stored page record, the highest of the stored page records.
C35_CheckpointMonotoneAndStored ==
    [][\A j \in JobIds :
          OnlyJobRun(j) =>
              /\ jobs'[j].current_page >= jobs[j].current_page
              /\ jobs'[j].current_page # jobs[j].current_page =>
                    /\ PageId(BookId, jobs'[j].current_page) \in {p.id : p \in pages}
                    /\ PageStored(jobs'[j].current_page)
                    /\ \A p \in pages : p.page_number <= jobs'[j].current_page]_vars

\* the second run_job of job 1 moved its checkpoint from 1 to 3
C35_Witness ==
    /\ runs = 2 /\ job_id[1] = 1 /\ resume[1] = 1
    /\ batch_size = 1 /\ Len(doc.pages) = 3
    /\ OnlyJobRun(1)
    /\ pc[1] = "flush_poll"
    /\ jobs[1].current_page = 3
    /\ PageStored(3)

\* The positions of run_job after its RUNNING write and before its terminal
\* COMPLETED or FAILED write
BetweenRunningAndTerminal ==
    {"book_parsing", "precheck", "total_pages", "phase_parse", "parse",
     "phase_ingest", "upsert_sections", "phase_indexing", "index"}
        \cup IngestPcs

\* C36: no write the pipeline makes between its RUNNING write and its
\* terminal write changes the state field of a job, so a job an outside actor
\* set PAUSED in that window is still PAUSED when the pipeline polls.
C36_PipelineWritesKeepState ==
    [][\A w \in active :
          (pc[w] \in BetweenRunningAndTerminal /\ pc'[w] # pc[w]) =>
              \A j \in JobIds : jobs'[j].state = jobs[j].state]_vars

\* the job was paused before the checkpoint write that precedes the poll and
\* is read as PAUSED by the poll
C36_Witness ==
    /\ runs = 1 /\ paused_stop[1]
    /\ JobOf(1).state = "paused"
    /\ JobOf(1).phase = "db_ingestion"
    /\ JobOf(1).current_page = 1
    /\ Len(doc.pages) = 3

\* The highest parsed page number, 0 for a document without pages
HighestPage == IF PageNumbers = {} THEN 0 ELSE Max(PageNumbers)

\* C37: whenever a job (created at checkpoint 0) is COMPLETED, every page of
\* the parsed document has a stored page record and the job's checkpoint is
\* the highest parsed page number, whatever pause requests occurred.
C37_CompletedMeansWholeDocument ==
    \A j \in JobIds :
        jobs[j].state = "completed" =>
            /\ AllPageRecords \subseteq pages
            /\ jobs[j].current_page = HighestPage

\* C38: a job in state COMPLETED has no error_message, also when a resumed
\* run_job completed it after an earlier run of the job failed and recorded
\* a message.
C38_CompletedJobHasNoMessage ==
    \A j \in JobIds :
        jobs[j].state = "completed" => jobs[j].error_message = NoMsg

\* -------------------------------------------------- two pipelines, one book
\* Two run_job executions exist for the book; each repository call is a step
InitTwo ==
    /\ doc = ParsedBook(2)
    /\ batch_size \in {1, 2}
    /\ file_present = TRUE
    /\ page_count = NoneInt
    /\ active = AllWorkers
    /\ InitRepo
    /\ InitLocals
    /\ InitSql
    /\ InitApi

SpecTwo == InitTwo /\ [][NextAlone]_vars

\* The run_job of worker w returned after its page loop went through the
\* whole document
RanToEnd(w) ==
    /\ Exited(w) /\ result[w].kind = "returned"
    /\ LoopFinished(w) /\ ~paused_stop[w]

NoDuplicateIds(rows) == Cardinality({r.id : r \in rows}) = Cardinality(rows)

\* C39: when two run_job executions for the same book and the same parsed
\* output interleave at the granularity of repository calls, no record is
\* duplicated (one row per id, each a record of the document) and, when both
\* have run to the end, none is lost: the stored page, section, block and
\* asset records are those of a single run.
C39_InterleavedRunsEqualSingleRun ==
    /\ pages \subseteq AllPageRecords /\ NoDuplicateIds(pages)
    /\ sections \subseteq AllSectionRecords /\ NoDuplicateIds(sections)
    /\ blocks \subseteq AllBlockRecords /\ NoDuplicateIds(blocks)
    /\ assets \subseteq AllAssetRecords /\ NoDuplicateIds(assets)
    /\ (\A w \in AllWorkers : RanToEnd(w)) => FullyStored

\* both executions ran job 1 from checkpoint 0 to the end of a two-page
\* document, so the second started before the first wrote a checkpoint
C39_Witness ==
    /\ Len(doc.pages) = 2
    /\ job_id[1] = 1 /\ job_id[2] = 1
    /\ resume[1] = 0 /\ resume[2] = 0
    /\ RanToEnd(1) /\ RanToEnd(2)
    /\ jobs[1].current_page = 2
    /\ FullyStored

====
